---- MODULE Spec2Model ----
(***************************************************************************)
(* A model of the per-torrent coordinator of charo-torrent                 *)
(* (src/torrent/torrent.go): the active set t.conns, the candidate set     *)
(* t.peers, the half-open map, the user-command channel and close().       *)
(* Handlers of Torrent.mainLoop are single actions; dial tasks, peer       *)
(* sessions and callers of exported methods are separate processes.        *)
(***************************************************************************)
EXTENDS Integers, Sequences, FiniteSets, TLC

\* ------------------------------------------------------------------ bounds
\* session objects (connInfo) that can ever be created
NumSessions == 3
\* distinct peer addresses (IP, port)
NumAddrs == 2
\* candidates plus running dial tasks never exceed this many
MaxPeers == 3
\* goroutines calling exported methods
NumCallers == 2
\* capacity of a session's outbound channel ci.sendC
SendCCap == 4
\* cl.config.MaxEstablishedConns, scaled down
maxEstablishedConnections == 2
\* Torrent.maxHalfOpenConns, scaled down
maxHalfOpenConns == 2
\* choker: regular unchoke slots, scaled down
MaxUnchoked == 1
\* Torrent.wantPeersThreshold
wantPeersThreshold == 100

\* pieces of the torrent
NumPieces == 2
\* blocks of a piece
NumBlocks == 2
\* events a session may have pushed and not yet seen handled
MaxEvents == 2
\* the highest malliciousness score a session reaches
MaxScore == 3

\* bytes of a block, scaled down (blockRequestSize)
BlockLen == 2
\* t.mi.Info.PieceLen
PieceLen == NumBlocks * BlockLen

Sessions == 1..NumSessions
Pieces == 0..(NumPieces - 1)
Blocks == 0..(NumBlocks - 1)
NilPieces == [nil |-> TRUE, owned |-> {}]
\* t.infoBytes is nil
NilBytes == [len |-> 0, blk |-> <<>>]
Addrs == 1..NumAddrs
Callers == 1..NumCallers
\* the byte offsets of the blocks in the content
Offsets == {p * PieceLen + b * BlockLen : p \in Pieces, b \in Blocks}
\* what the seeder holds at each offset; a block nobody wrote; a block of
\* bytes that are not the seeder's
Content == [o \in Offsets |-> o + 1]
NoContent == [o \in Offsets |-> 0]
Junk == 0 - 1
\* the total lengths of the content: the last piece a byte short, or whole
Lengths == {NumPieces * PieceLen - 1, NumPieces * PieceLen}

\* const metadataPieceSz = 1 << 14
metadataPieceSz == 16384
\* the greatest info size downloadMetadata accepts
maxInfoSize == 10000000
\* 10 MiB
TenMiB == 10 * 1024 * 1024
\* the 16 KiB blocks of the torrent's info dictionary, the last one a byte long
InfoBlocks == 3
InfoSize == (InfoBlocks - 1) * metadataPieceSz + 1
\* the info sizes that peers advertise
InfoSizes == {1, metadataPieceSz, metadataPieceSz + 1, InfoSize,
              maxInfoSize, maxInfoSize + 1, TenMiB, TenMiB + 1}
\* nobody has advertised a size
NoSizes == [s \in InfoSizes |-> 0]
\* nobody has called readMetadataPiece
NoReader == [b |-> <<>>, i |-> 0, err |-> ""]

VARIABLES
    conns,              \* t.conns: sequence of admitted sessions
    peers,              \* t.peers: sequence of candidate addresses
    halfOpen,           \* keys of t.halfOpen
    dials,              \* running makeOutgoingConnection tasks, per address
    newConnC,           \* t.newConnC
    recvC,              \* t.recvC: <<session, event>>
    blackList,          \* cl.blackList
    info,               \* t.mi.Info != nil
    infoBytes,          \* t.infoBytes: its length and what each 16 KiB block holds
    ownedInfoBlocks,    \* t.ownedInfoBlocks
    infoSizeFreq,       \* t.infoSizeFreq: how often each info size was advertised
    reader,             \* a caller of readMetadataPiece: its buffer and the error
    hasherStarted,      \* gotInfo has started the pieceHasher goroutine
    storage,            \* t.storage: what the block at each offset holds
    pieces,             \* t.pieces: nil, or the owned pieces
    uploadEnabled, downloadEnabled,
    isClosed, ClosedC, dropC, InfoC,
    canAnnounceTracker, \* t.canAnnounceTracker
    trackerEvents,      \* events submitted to the tracker announcer, unanswered
    trackerTimer,       \* t.trackerAnnouncerTimer is armed
    canAnnounceDht, dhtPeers, dhtTimer,
    unchoked,           \* choker: sessions currently unchoked
    sendC,              \* ci.sendC per session
    rejected,           \* sessions logged as rejected
    aggregating,        \* sessions whose aggregateEvents goroutine runs
    loop,               \* mainLoop: "start", "select", "parked", "blocked", "exited"
    panicMsg,           \* the panic that ended the process, "" if none
    dhtServer,          \* cl.dhtServer != nil (and DHT not disabled by the config)
    trackers,           \* trackers are enabled and the torrent has an announce URL
    sessState,          \* "free", "live", "dropped" (droppedC closed)
    sessAddr, sessDHT,
    connRecvC,          \* ci.recvC per session
    nextSess,
    kicked,             \* sessions given up for a full outbound channel
    sessScore,          \* ci.stats.malliciousness()
    pcs,                \* t.pieces.pcs: the block sets of every piece
    queuedForVerification,
    pieceQueuedHashingC,
    hashing,            \* pieceHasher: the pieces it holds (none or one)
    numVerified,        \* pieceHasher.numVerified
    hasherExited,       \* pieceHasher.Run has returned
    dec,                \* a call of bencode.Decode: its reader and how far it is
    pieceHashedC,       \* <<piece, ok>>
    DownloadedDataC,
    pc, op, result,
    scope               \* how many callers, sessions, addresses and peers a run has

torVars == <<conns, peers, halfOpen, dials, newConnC, recvC, blackList, info,
             infoBytes, ownedInfoBlocks, infoSizeFreq, reader, hasherStarted,
             storage, pieces, uploadEnabled, downloadEnabled, isClosed, ClosedC,
             dropC, InfoC, canAnnounceTracker, trackerEvents, trackerTimer,
             canAnnounceDht, dhtPeers, dhtTimer, unchoked, sendC, rejected,
             aggregating, loop, panicMsg, dhtServer, trackers,
             sessState, sessAddr, sessDHT, connRecvC, nextSess, kicked,
             sessScore, pcs, queuedForVerification,
             pieceQueuedHashingC, hashing, numVerified, hasherExited,
             pieceHashedC, DownloadedDataC, dec>>
userVars == <<pc, op, result>>
vars == <<torVars, userVars, scope>>

\* ----------------------------------------------------------------- helpers
Range(s) == {s[i] : i \in DOMAIN s}

RemoveAt(s, i) == SubSeq(s, 1, i - 1) \o SubSeq(s, i + 1, Len(s))

SeqsUpTo(S, n) == UNION {[1..k -> S] : k \in 0..n}

Min(a, b) == IF a < b THEN a ELSE b

\* no call of bencode.Decode is under way
NoDec == [phase |-> "none"]

\* the torrent and its sessions as one value, so that handlers compose as
\* functions
Tor ==
    [conns |-> conns, peers |-> peers, halfOpen |-> halfOpen, dials |-> dials,
     newConnC |-> newConnC, recvC |-> recvC, blackList |-> blackList,
     info |-> info, infoBytes |-> infoBytes, pieces |-> pieces,
     ownedInfoBlocks |-> ownedInfoBlocks, infoSizeFreq |-> infoSizeFreq,
     reader |-> reader, hasherStarted |-> hasherStarted, storage |-> storage,
     uploadEnabled |-> uploadEnabled, downloadEnabled |-> downloadEnabled,
     isClosed |-> isClosed, ClosedC |-> ClosedC, dropC |-> dropC, InfoC |-> InfoC,
     canAnnounceTracker |-> canAnnounceTracker, trackerEvents |-> trackerEvents,
     trackerTimer |-> trackerTimer, canAnnounceDht |-> canAnnounceDht,
     dhtPeers |-> dhtPeers, dhtTimer |-> dhtTimer, unchoked |-> unchoked,
     sendC |-> sendC, rejected |-> rejected, aggregating |-> aggregating,
     loop |-> loop, panicMsg |-> panicMsg, dhtServer |-> dhtServer,
     trackers |-> trackers, sessState |-> sessState, sessAddr |-> sessAddr,
     sessDHT |-> sessDHT, connRecvC |-> connRecvC, nextSess |-> nextSess,
     kicked |-> kicked, 
     sessScore |-> sessScore, pcs |-> pcs,
     queuedForVerification |-> queuedForVerification,
     pieceQueuedHashingC |-> pieceQueuedHashingC, hashing |-> hashing,
     numVerified |-> numVerified, hasherExited |-> hasherExited, dec |-> dec,
     pieceHashedC |-> pieceHashedC,
     DownloadedDataC |-> DownloadedDataC]

\* a session that has exited and that nothing refers to any more: it is not
\* in a queue of the coordinator, and no goroutine will read what it reported
finished(t, c) ==
    /\ t.sessState[c] = "dropped"
    /\ c \notin Range(t.conns) /\ c \notin Range(t.newConnC)
    /\ \A i \in DOMAIN t.recvC : t.recvC[i][1] # c
    /\ t.connRecvC[c] = <<>> \/ c \notin t.aggregating \/ t.isClosed

\* the fields of finished sessions can no longer be read: they are cleared.
\* So are the bytes of a block that is to be asked for: they are written
\* again before the piece is hashed or served
collect(t) ==
    LET F == {c \in Sessions : finished(t, c)}
        unasked == UNION {{p * PieceLen + b * BlockLen :
                               b \in t.pcs[p].unrequestedBlocks} : p \in Pieces}
    IN [t EXCEPT !.storage = [o \in Offsets |-> IF o \in unasked THEN 0 ELSE @[o]],
                 !.sendC = [c \in Sessions |-> IF c \in F THEN <<>> ELSE @[c]],
                 !.connRecvC = [c \in Sessions |-> IF c \in F THEN <<>> ELSE @[c]],
                 !.sessAddr = [c \in Sessions |-> IF c \in F THEN 0 ELSE @[c]],
                 !.sessDHT = [c \in Sessions |-> IF c \in F THEN FALSE ELSE @[c]],
                 !.sessScore = [c \in Sessions |-> IF c \in F THEN 0 ELSE @[c]],
                 !.rejected = @ \ F, !.aggregating = @ \ F, !.kicked = @ \ F]

Commit(t0) ==
    \E t1 \in {t0} : \E t \in {collect(t1)} :
    /\ conns' = t.conns /\ peers' = t.peers /\ halfOpen' = t.halfOpen
    /\ dials' = t.dials /\ newConnC' = t.newConnC /\ recvC' = t.recvC
    /\ blackList' = t.blackList /\ info' = t.info /\ infoBytes' = t.infoBytes
    /\ ownedInfoBlocks' = t.ownedInfoBlocks /\ infoSizeFreq' = t.infoSizeFreq
    /\ reader' = t.reader /\ hasherStarted' = t.hasherStarted
    /\ storage' = t.storage
    /\ pieces' = t.pieces /\ uploadEnabled' = t.uploadEnabled
    /\ downloadEnabled' = t.downloadEnabled /\ isClosed' = t.isClosed
    /\ ClosedC' = t.ClosedC /\ dropC' = t.dropC /\ InfoC' = t.InfoC
    /\ canAnnounceTracker' = t.canAnnounceTracker
    /\ trackerEvents' = t.trackerEvents /\ trackerTimer' = t.trackerTimer
    /\ canAnnounceDht' = t.canAnnounceDht /\ dhtPeers' = t.dhtPeers
    /\ dhtTimer' = t.dhtTimer /\ unchoked' = t.unchoked /\ sendC' = t.sendC
    /\ rejected' = t.rejected /\ aggregating' = t.aggregating
    /\ loop' = t.loop /\ panicMsg' = t.panicMsg /\ dhtServer' = t.dhtServer
    /\ trackers' = t.trackers /\ sessState' = t.sessState
    /\ sessAddr' = t.sessAddr /\ sessDHT' = t.sessDHT
    /\ connRecvC' = t.connRecvC /\ nextSess' = t.nextSess
    /\ kicked' = t.kicked
    /\ sessScore' = t.sessScore /\ pcs' = t.pcs
    /\ queuedForVerification' = t.queuedForVerification
    /\ pieceQueuedHashingC' = t.pieceQueuedHashingC /\ hashing' = t.hashing
    /\ numVerified' = t.numVerified /\ hasherExited' = t.hasherExited
    /\ dec' = t.dec
    /\ pieceHashedC' = t.pieceHashedC
    /\ DownloadedDataC' = t.DownloadedDataC

\* a panic ends the process (mainLoop recovers it only to call logger.Fatal)
Panic(t, msg) == IF t.panicMsg = "" THEN [t EXCEPT !.panicMsg = msg] ELSE t

\* ------------------------------------------------------- the piece registry
\* newPieces: every block of every piece is unrequested, nobody holds it
newPiece ==
    [unrequestedBlocks |-> Blocks, pendingBlocks |-> {}, completeBlocks |-> {},
     req |-> [b \in Blocks |-> 0], by |-> [b \in Blocks |-> 0]]

newPieces == [p \in Pieces |-> newPiece]

\* t.pieces is nil
NoPcs == [p \in Pieces |-> [newPiece EXCEPT !.unrequestedBlocks = {}]]

\* the blocks marked complete without leaving the unrequested set
markedComplete(ps, S) ==
    [p \in Pieces |->
        IF p \in S
        THEN [ps[p] EXCEPT !.completeBlocks = ps[p].unrequestedBlocks]
        ELSE ps[p]]

\* gotInfo with a complete copy on disk: p.unrequestedBlocks,
\* p.completeBlocks = p.completeBlocks, p.unrequestedBlocks
swapped(ps, S) ==
    [p \in Pieces |->
        IF p \in S
        THEN [ps[p] EXCEPT !.unrequestedBlocks = ps[p].completeBlocks,
                           !.completeBlocks = ps[p].unrequestedBlocks]
        ELSE ps[p]]

\* ------------------------------------------------------------- observers
\* haveInfo answering yes before the info is known
haveInfoAlways(t) == TRUE

haveInfo(t) == t.info

\* a torrent that is allowed to transfer whether it was started or not
dataTransferAlwaysAllowed(t) == TRUE

\* true if we are allowed to download/upload torrent data or we need info
dataTransferAllowed(t) == ~haveInfo(t) \/ t.uploadEnabled \/ t.downloadEnabled

\* true if we would like to initiate new connections
\* wantConns without the limit of the active set
wantConnsNoLimit(t) == dataTransferAllowed(t)

wantConns(t) ==
    Len(t.conns) < maxEstablishedConnections /\ dataTransferAllowed(t)

\* float64(max / len(conns)) is an integer division; the constant 10/9 is 1;
\* int(+Inf) (ratio 0) is the smallest integer on the usual build
wantPeersLimit(t) ==
    IF Len(t.conns) > 0
    THEN LET ratio == maxEstablishedConnections \div Len(t.conns)
         IN IF ratio < 10 \div 9 THEN 0 - 2147483647 ELSE wantPeersThreshold
    ELSE wantPeersThreshold

wantPeers(t) == Len(t.peers) < wantPeersLimit(t) /\ dataTransferAllowed(t)

infoWasDownloaded(t) == t.infoBytes # NilBytes

\* has peer the same addr with any active connection
peerInActiveConns(t, a) == \E i \in DOMAIN t.conns : t.sessAddr[t.conns[i]] = a

\* a lookup that does not compare identities: the first session, if any
connIndexFirst(t, ci) == IF t.conns # <<>> THEN 1 ELSE 0

\* Torrent.connIndex: the position of ci in t.conns, 0 if it is not there
connIndex(t, ci) ==
    IF \E i \in DOMAIN t.conns : t.conns[i] = ci
    THEN CHOOSE i \in DOMAIN t.conns :
            t.conns[i] = ci /\ \A j \in 1..(i - 1) : t.conns[j] # ci
    ELSE 0

\* ------------------------------------------------------------- announcers
sendAnnounceToTracker(t, event) ==
    IF ~t.trackers THEN t
    ELSE [t EXCEPT !.trackerEvents = Append(@, event), !.canAnnounceTracker = FALSE]

\* t.mi.Info.Hash is read through the nil t.mi.Info while info is unknown
announceDht(t) ==
    IF ~t.dhtServer THEN t
    ELSE IF ~haveInfo(t) THEN Panic(t, "nil dereference")
    ELSE [t EXCEPT !.dhtPeers = TRUE, !.dhtTimer = TRUE, !.canAnnounceDht = FALSE]

tryAnnounceAll(t) ==
    IF ~wantPeers(t) THEN t
    ELSE LET t1 == IF t.canAnnounceTracker THEN sendAnnounceToTracker(t, "none") ELSE t
         IN IF t1.canAnnounceDht THEN announceDht(t1) ELSE t1

closeDhtAnnounce(t) ==
    IF ~t.dhtServer \/ ~t.dhtPeers THEN t ELSE [t EXCEPT !.dhtPeers = FALSE]

resetNextTrackerAnnounce(t) == [t EXCEPT !.trackerTimer = TRUE]

\* ------------------------------------------------------- commands to sessions
\* connInfo.sendMsgToConn: a send that never blocks; a command that finds the
\* outbound channel full is abandoned and the session is given up
sendMsgToConn(t, c, cmd) ==
    IF Len(t.sendC[c]) < SendCCap
    THEN [t EXCEPT !.sendC[c] = Append(@, cmd)]
    ELSE [t EXCEPT !.kicked = @ \cup {c}]

RECURSIVE sendEach(_, _, _)
sendEach(t, cs, cmd) ==
    IF cs = <<>> THEN t
    ELSE LET c == Head(cs)
             t1 == IF cmd[c] = "" THEN t ELSE sendMsgToConn(t, c, cmd[c])
         IN sendEach(t1, Tail(cs), cmd)

\* careful when using this, we might send over nil chan
broadcastToConns(t, cmd) ==
    sendEach(t, t.conns, [c \in Sessions |-> cmd])

\* choker.reviewUnchokedPeers: the best MaxUnchoked sessions (here: the oldest
\* in t.conns) are unchoked; unchoke goes to the newly selected, choke to the
\* newly deselected
reviewUnchokedPeers(t) ==
    LET selected == {t.conns[i] : i \in 1..Min(MaxUnchoked, Len(t.conns))}
        cmd == [c \in Sessions |->
                  IF c \in selected /\ c \notin t.unchoked THEN "unchoke"
                  ELSE IF c \notin selected /\ c \in t.unchoked THEN "choke"
                  ELSE ""]
    IN [sendEach(t, t.conns, cmd) EXCEPT !.unchoked = selected]

\* --------------------------------------------------------------- the dialer
\* the peers of the list that f accepts are appended to the candidates
addFilteredPeers(t, ps, f) ==
    LET accepted(a) == f[a]
    IN [t EXCEPT !.peers = @ \o SelectSeq(ps, accepted)]

\* popPeer takes a random candidate; each peer not in the active set becomes a
\* half-open entry (keyed by its address) and a dial task
RECURSIVE dialLoop(_)
dialLoop(t) ==
    IF Len(t.peers) > 0 /\ Cardinality(t.halfOpen) < maxHalfOpenConns
    THEN UNION {
            LET a == t.peers[i]
                t1 == [t EXCEPT !.peers = RemoveAt(@, i)]
            IN IF peerInActiveConns(t1, a)
               THEN dialLoop(t1)
               ELSE dialLoop([t1 EXCEPT !.halfOpen = @ \cup {a},
                                        !.dials[a] = @ + 1])
            : i \in DOMAIN t.peers}
    ELSE {t}

dialConns(t) ==
    IF ~wantConns(t) THEN {t}
    ELSE {tryAnnounceAll(t1) : t1 \in dialLoop(t)}

gotPeers(t, ps) ==
    LET notBanned == [a \in Addrs |-> a \notin t.blackList]
    IN dialConns(addFilteredPeers(t, ps, notBanned))

\* a dial that ends without calling the dialer again
removeHalfOpenNoDial(t, a) == {[t EXCEPT !.halfOpen = @ \ {a}]}

removeHalfOpen(t, a) == dialConns([t EXCEPT !.halfOpen = @ \ {a}])

\* ------------------------------------------------------------ piece hashing
\* a torrent that takes its first verified piece for all of them
haveAny(t) == haveInfo(t) /\ t.pieces.owned # {}

\* pieces.haveAll: every piece is verified
haveAll(t) == haveInfo(t) /\ t.pieces.owned = Pieces

\* the selector: a piece we began comes first, then the lowest index; within
\* the piece the lowest offset. The set holds the block to request, if any
nextBlock(t) ==
    LET open == {p \in Pieces : t.pcs[p].unrequestedBlocks # {}}
        begun == {p \in open : t.pcs[p].unrequestedBlocks # Blocks}
        from == IF begun # {} THEN begun ELSE open
    IN IF from = {} THEN {}
       ELSE LET p == CHOOSE x \in from : \A y \in from : x <= y
                b == CHOOSE x \in t.pcs[p].unrequestedBlocks :
                        \A y \in t.pcs[p].unrequestedBlocks : x <= y
            IN {<<p, b>>}

\* the selector hands block b of piece p to session c: unrequested -> pending
requestBlock(t, c, p, b) ==
    [t EXCEPT !.pcs[p].unrequestedBlocks = @ \ {b},
              !.pcs[p].pendingBlocks = @ \cup {b},
              !.pcs[p].req[b] = c]

\* the requests session c has in flight are given up: pending -> unrequested
discardRequests(t, c) ==
    [t EXCEPT !.pcs = [p \in Pieces |->
        LET mine == {b \in t.pcs[p].pendingBlocks : t.pcs[p].req[b] = c}
        IN [t.pcs[p] EXCEPT !.unrequestedBlocks = @ \cup mine,
                            !.pendingBlocks = @ \ mine,
                            !.req = [b \in Blocks |-> IF b \in mine THEN 0 ELSE @[b]]]]]

inFlight(t, c) ==
    {pb \in Pieces \X Blocks :
        pb[2] \in t.pcs[pb[1]].pendingBlocks /\ t.pcs[pb[1]].req[pb[2]] = c}

\* the hash queue refusing a piece it holds already is left out
queuePieceForHashingNoDedup(t, i) ==
    IF Len(t.pieceQueuedHashingC) < NumPieces
    THEN [t EXCEPT !.queuedForVerification = @ \cup {i},
                   !.pieceQueuedHashingC = Append(@, i)]
    ELSE Panic(t, "queue piece hash: should not block")

\* Torrent.queuePieceForHashing: a piece that is queued or verified is not
\* queued again; the send must find room
queuePieceForHashing(t, i) ==
    IF i \in t.queuedForVerification \/ i \in t.pieces.owned THEN t
    ELSE IF Len(t.pieceQueuedHashingC) < NumPieces
    THEN [t EXCEPT !.queuedForVerification = @ \cup {i},
                   !.pieceQueuedHashingC = Append(@, i)]
    ELSE Panic(t, "queue piece hash: should not block")

\* pieces.setBlockComplete: pending -> complete, the contributor is recorded;
\* the piece is queued for hashing when its last block completes. A block
\* that is not pending is an invariant violation and aborts
setBlockComplete(t, i, off, c) ==
    IF off \notin t.pcs[i].pendingBlocks
    THEN Panic(t, "block completed but not pending")
    ELSE LET t1 == [t EXCEPT !.pcs[i].pendingBlocks = @ \ {off},
                             !.pcs[i].completeBlocks = @ \cup {off},
                             !.pcs[i].req[off] = 0,
                             !.pcs[i].by[off] = c]
         IN IF t1.pcs[i].completeBlocks = Blocks
            THEN queuePieceForHashing(t1, i) ELSE t1

blockDownloaded(t, c, i, off) == setBlockComplete(t, i, off, c)

\* pieces.pieceHashed with ok = false: the sessions of t.conns that contributed
\* are charged, every block goes back to unrequested, the contributors are
\* forgotten
piecesHashFailed(t, i) ==
    LET bad(c) == Cardinality({b \in Blocks : t.pcs[i].by[b] = c})
    IN [t EXCEPT !.sessScore = [c \in Sessions |->
                                  IF c \in Range(t.conns) THEN @[c] + bad(c) ELSE @[c]],
                 !.pcs[i] = newPiece]

\* pieces.pieceHashed with ok = true: the piece is verified and owned
piecesHashOk(t, i) == [t EXCEPT !.pieces.owned = @ \cup {i}]

\* Torrent.sendHaves
sendHaves(t, i) == broadcastToConns(t, "have")

\* Torrent.onPieceDownload
onPieceDownload(t, i) == sendHaves(t, i)

\* the first session of t.conns, whatever its score
firstConn(t) == IF t.conns = <<>> THEN 0 ELSE t.conns[1]

\* banPeer's loop: the first session of t.conns with the greatest score
toBan(t) ==
    IF t.conns = <<>> THEN 0
    ELSE t.conns[CHOOSE i \in DOMAIN t.conns :
             /\ \A j \in DOMAIN t.conns :
                    t.sessScore[t.conns[j]] <= t.sessScore[t.conns[i]]
             /\ \A j \in 1..(i - 1) :
                    t.sessScore[t.conns[j]] < t.sessScore[t.conns[i]]]

\* Torrent.banPeer
banPeer(t) ==
    LET c == toBan(t) IN
    IF c = 0 THEN t
    ELSE sendMsgToConn([t EXCEPT !.blackList = @ \cup {t.sessAddr[c]}], c, "drop")

\* a coordinator that takes every result for a good one
pieceHashedAnyway(t, i, correct) ==
    onPieceDownload(piecesHashOk([t EXCEPT !.queuedForVerification = @ \ {i}], i), i)

\* Torrent.pieceHashed
pieceHashed(t, i, correct) ==
    LET t1 == [t EXCEPT !.queuedForVerification = @ \ {i}]
    IN IF correct THEN onPieceDownload(piecesHashOk(t1, i), i)
       ELSE banPeer(piecesHashFailed(t1, i))

\* close(t.DownloadedDataC): closing a closed channel panics
closeDownloadedDataC(t) ==
    IF t.DownloadedDataC THEN Panic(t, "close of closed channel")
    ELSE [t EXCEPT !.DownloadedDataC = TRUE]

\* Torrent.downloadedAll
downloadedAll(t) == broadcastToConns(closeDownloadedDataC(t), "notInterested")

\* mainLoop: case res := <-t.pieceHashedC
onPieceHashed(t, i, ok) ==
    LET t1 == pieceHashed(t, i, ok)
    IN IF haveAll(t1)
       THEN downloadedAll(sendAnnounceToTracker(t1, "completed"))
       ELSE t1

\* ------------------------------------------------------------ the storage
\* t.length, the total length of the content
Length == IF "length" \in DOMAIN scope THEN scope.length
          ELSE NumPieces * PieceLen - 1

\* the peers send the seeder's bytes only
Honest == "honest" \in DOMAIN scope /\ scope.honest

\* Torrent.pieceLen
pieceLen(i) ==
    IF i = NumPieces - 1 THEN Length % PieceLen ELSE PieceLen

\* the bytes of piece i in the content: the last piece may be shorter
pieceBytes(i) ==
    IF (i + 1) * PieceLen <= Length THEN PieceLen ELSE Length - i * PieceLen

\* a storage that takes every piece for a good one
HashPieceUnchecked(st, i, len) == TRUE

\* storage.HashPiece: the SHA-1 of len bytes at the piece's offset is the
\* piece's hash of the info exactly when these are the bytes of the piece
HashPiece(st, i, len) ==
    /\ len = pieceBytes(i)
    /\ \A b \in Blocks :
          st[i * PieceLen + b * BlockLen] = Content[i * PieceLen + b * BlockLen]

\* Torrent.writeBlock
writeBlock(t, data, piece, begin) ==
    [t EXCEPT !.storage[piece * PieceLen + begin] = data]

\* Torrent.readBlock: the bytes at the block's offset
readBlock(t, piece, begin) == t.storage[piece * PieceLen + begin]

\* ------------------------------------------------------------ the info
\* storage.Open finding the content complete on disk or not
openStorage(t, haveAllOnDisk) ==
    [t EXCEPT !.storage = IF haveAllOnDisk THEN Content ELSE NoContent]

\* defer close(t.InfoC): closing a closed channel panics
closeInfoC(t) ==
    IF t.InfoC THEN Panic(t, "close of closed channel")
    ELSE [t EXCEPT !.InfoC = TRUE]

\* gotInfo's loop over t.pieces.pcs: the block sets of the piece are swapped
\* and the piece is handled as one whose hash was good
RECURSIVE hashedAll(_, _)
hashedAll(t, i) ==
    IF i = NumPieces THEN t
    ELSE hashedAll(pieceHashed([t EXCEPT !.pcs = swapped(@, {i})], i, TRUE), i + 1)

\* a gotInfo that starts the hasher whether the content is complete or not
gotInfoHasherAlways(t, haveAllOnDisk) ==
    LET t1 == [t EXCEPT !.pieces = [nil |-> FALSE, owned |-> {}],
                        !.pcs = newPieces,
                        !.pieceQueuedHashingC = <<>>, !.pieceHashedC = <<>>]
        t2 == broadcastToConns(openStorage(t1, haveAllOnDisk), "haveInfo")
        t3 == IF haveAllOnDisk
              THEN [downloadedAll(hashedAll(t2, 0)) EXCEPT !.hasherStarted = TRUE]
              ELSE [t2 EXCEPT !.hasherStarted = TRUE]
    IN closeInfoC(t3)

\* Torrent.gotInfo: the registry and the hash channels are made, the block
\* store is opened and the sessions are told; with a complete copy every
\* piece is marked verified and no hasher is started
gotInfo(t, haveAllOnDisk) ==
    LET t1 == [t EXCEPT !.pieces = [nil |-> FALSE, owned |-> {}],
                        !.pcs = newPieces,
                        !.pieceQueuedHashingC = <<>>, !.pieceHashedC = <<>>]
        t2 == broadcastToConns(openStorage(t1, haveAllOnDisk), "haveInfo")
        t3 == IF haveAllOnDisk
              THEN downloadedAll(hashedAll(t2, 0))
              ELSE [t2 EXCEPT !.hasherStarted = TRUE]
    IN closeInfoC(t3)

\* freqMap.max: the size advertised most often, 0 if none was
maxFreq(t) ==
    LET seen == {s \in InfoSizes : t.infoSizeFreq[s] > 0}
    IN IF seen = {} THEN {0}
       ELSE {s \in seen : \A r \in seen : t.infoSizeFreq[r] <= t.infoSizeFreq[s]}

\* the 16 KiB blocks of an info of the given size
numInfoBlocks(infoSize) ==
    infoSize \div metadataPieceSz
        + (IF infoSize % metadataPieceSz # 0 THEN 1 ELSE 0)

\* a download that takes every size up to 10 MiB
downloadMetadataTenMiB(t, infoSize) ==
    IF infoSize = 0 \/ infoSize > TenMiB THEN <<t, FALSE>>
    ELSE <<[t EXCEPT !.infoBytes = [len |-> infoSize,
                                    blk |-> [i \in 1..numInfoBlocks(infoSize) |-> 0]],
                     !.ownedInfoBlocks = [i \in 1..numInfoBlocks(infoSize) |-> FALSE]],
           TRUE>>

\* downloadMetadata for the size that freqMap.max returned: the torrent and
\* the returned flag
downloadMetadataOf(t, infoSize) ==
    IF infoSize = 0 \/ infoSize > maxInfoSize THEN <<t, FALSE>>
    ELSE <<[t EXCEPT !.infoBytes = [len |-> infoSize,
                                    blk |-> [i \in 1..numInfoBlocks(infoSize) |-> 0]],
                     !.ownedInfoBlocks = [i \in 1..numInfoBlocks(infoSize) |-> FALSE]],
           TRUE>>

\* Torrent.downloadMetadata
downloadMetadata(t) == {downloadMetadataOf(t, s) : s \in maxFreq(t)}

\* Torrent.downloadedMetadata
downloadedMetadata(t) ==
    \A i \in DOMAIN t.ownedInfoBlocks : t.ownedInfoBlocks[i]

\* sha1.Sum(t.infoBytes) = t.mi.Info.Hash: the buffer has the length of the
\* info dictionary and every block holds the dictionary's bytes
infoHashMatches(t) ==
    /\ t.infoBytes.len = InfoSize
    /\ \A i \in DOMAIN t.infoBytes.blk : t.infoBytes.blk[i] = 1

\* a verification that takes any bytes for the info dictionary
verifyInfoDictUnchecked(t) == {<<TRUE, "">>}

\* Torrent.verifyInfoDict: <<ok, err>>; the hash is read through t.mi.Info;
\* bencode.Decode may refuse the dictionary
verifyInfoDict(t) ==
    IF ~infoHashMatches(t) THEN {<<FALSE, "">>}
    ELSE {<<TRUE, "">>, <<FALSE, "cant decode info dict">>}

\* the bytes of block i that a message of length n covers
infoBlockLen(t, i) == Min(metadataPieceSz, t.infoBytes.len - i * metadataPieceSz)

\* Torrent.writeMetadataPiece(b, i): the torrent and the returned error. b is
\* its length and whether its bytes are those of the info dictionary
writeMetadataPiece(t, b, i) ==
    IF i + 1 \notin DOMAIN t.ownedInfoBlocks
    THEN {<<Panic(t, "index out of range"), "">>}
    ELSE IF t.ownedInfoBlocks[i + 1] THEN {<<t, "">>}
    ELSE IF i * metadataPieceSz >= t.infoBytes.len
    THEN {<<t, "write metadata piece: out of range">>}
    ELSE IF b.len > metadataPieceSz
    THEN {<<t, "write metadata piece: length of of piece too big">>}
    ELSE IF b.len # metadataPieceSz /\ i # Len(t.ownedInfoBlocks) - 1
    THEN {<<t, "write metadata piece:piece is not the last and length is not 16KB">>}
    ELSE LET held == IF b.good /\ b.len >= infoBlockLen(t, i) THEN 1 ELSE Junk
             t1 == [t EXCEPT !.infoBytes.blk[i + 1] = held,
                             !.ownedInfoBlocks[i + 1] = TRUE]
         IN IF ~downloadedMetadata(t1) THEN {<<t1, "">>}
            ELSE IF ~haveInfo(t1) THEN {<<Panic(t1, "nil dereference"), "">>}
            ELSE UNION {IF v[1] THEN {<<gotInfo(t1, h), "">> : h \in BOOLEAN}
                        ELSE {<<t1, "">>}
                        : v \in verifyInfoDict(t1)}

\* what Torrent.readMetadataPiece should leave in the buffer: the bytes of
\* the info from i * 16 KiB to the end of the block
infoSlice(t, i) ==
    <<"info", i * metadataPieceSz,
      Min((i + 1) * metadataPieceSz, t.infoBytes.len)>>

\* Torrent.readMetadataPiece(b, i): the caller's buffer and the error. The
\* slice is assigned to the parameter b, the caller's buffer is not written
readMetadataPiece(t, b, i) ==
    IF ~haveInfo(t)
    THEN [b |-> b, i |-> i, err |-> "panic"]
    ELSE IF i * metadataPieceSz >= t.infoBytes.len
    THEN [b |-> b, i |-> i, err |-> "read metadata piece: out of range"]
    ELSE [b |-> b, i |-> i, err |-> "nil"]

\* a goroutine calls readMetadataPiece with a buffer of its own
callReadMetadataPiece(t, i) ==
    IF ~haveInfo(t) THEN Panic(t, "read metadata piece:we dont have info")
    ELSE [t EXCEPT !.reader = readMetadataPiece(t, <<"own">>, i)]

\* ---------------------------------------------------------- event handlers
\* establishedConnection, the branch of a session we do not want: a (blocking)
\* send of drop, logged as rejected
\* the rejection over a channel without buffer: the send waits for a session
\* that has gone
rejectConnUnbuffered(t, ci) ==
    IF t.sessState[ci] = "live"
    THEN LET t1 == [t EXCEPT !.sendC[ci] = Append(@, "drop")]
         IN [closeDhtAnnounce(t1) EXCEPT !.rejected = @ \cup {ci}]
    ELSE [t EXCEPT !.loop = "blocked"]

rejectConn(t, ci) ==
    IF Len(t.sendC[ci]) < SendCCap
    THEN LET t1 == [t EXCEPT !.sendC[ci] = Append(@, "drop")]
         IN [closeDhtAnnounce(t1) EXCEPT !.rejected = @ \cup {ci}]
    ELSE [t EXCEPT !.loop = "blocked"]

\* admitConn telling the bitfield before haveInfo
admitConnBitfieldFirst(t, ci) ==
    LET t1 == [t EXCEPT !.conns = Append(@, ci)]
    IN IF t1.pieces.nil
       THEN reviewUnchokedPeers(Panic(t1, "nil dereference"))
       ELSE LET t2 == IF t1.pieces.owned # {}
                      THEN sendMsgToConn(t1, ci, "bitfield") ELSE t1
                t3 == IF haveInfo(t2) THEN sendMsgToConn(t2, ci, "haveInfo") ELSE t2
                t4 == IF t3.sessDHT[ci] /\ t3.dhtServer
                      THEN sendMsgToConn(t3, ci, "port") ELSE t3
                t5 == [t4 EXCEPT !.aggregating = @ \cup {ci}]
            IN reviewUnchokedPeers(t5)

\* establishedConnection, the branch of a session we want: appended to t.conns
\* and told what we have; the choker review is deferred, so it also runs when
\* the read of t.pieces panics
admitConn(t, ci) ==
    LET t1 == [t EXCEPT !.conns = Append(@, ci)]
        t2 == IF haveInfo(t1) THEN sendMsgToConn(t1, ci, "haveInfo") ELSE t1
    IN IF t2.pieces.nil
       THEN reviewUnchokedPeers(Panic(t2, "nil dereference"))
       ELSE LET t3 == IF t2.pieces.owned # {}
                      THEN sendMsgToConn(t2, ci, "bitfield") ELSE t2
                t4 == IF t3.sessDHT[ci] /\ t3.dhtServer
                      THEN sendMsgToConn(t3, ci, "port") ELSE t3
                t5 == [t4 EXCEPT !.aggregating = @ \cup {ci}]
            IN reviewUnchokedPeers(t5)

\* establishedConnection without the return that ends the rejection
establishedConnectionNoReturn(t, ci) ==
    IF ~wantConns(t) THEN admitConn(rejectConn(t, ci), ci) ELSE admitConn(t, ci)

establishedConnection(t, ci) ==
    IF ~wantConns(t) THEN rejectConn(t, ci) ELSE admitConn(t, ci)

removeConn(t, ci, index) == [t EXCEPT !.conns = RemoveAt(@, index)]

\* conn notified us that it was dropped
droppedConn(t, ci) ==
    LET i == connIndex(t, ci) IN
    IF i = 0 THEN {t}
    ELSE LET t1 == removeConn(t, ci, i)
             t2 == IF infoWasDownloaded(t1) /\ ~dataTransferAllowed(t1)
                   THEN [t1 EXCEPT !.peers = Append(@, t1.sessAddr[ci])]
                   ELSE t1
         IN {reviewUnchokedPeers(t3) : t3 \in dialConns(t2)}

trackerAnnounced(t, err, ps) ==
    IF err THEN {resetNextTrackerAnnounce(t)}
    ELSE gotPeers(resetNextTrackerAnnounce(t), ps)

dhtAnnounced(t, ps) == gotPeers(t, ps)

\* a message of a session
onConnMsg(t, ci, e) ==
    IF e.kind = "connDroped" THEN droppedConn(t, ci)
    ELSE IF e.kind = "downloadedBlock" THEN {blockDownloaded(t, ci, e.pc, e.off)}
    ELSE IF e.kind = "discardedRequests"
    THEN {broadcastToConns(t, "requestsAvailable")}
    ELSE {t}

\* ------------------------------------------------------------------- close
\* Torrent.close up to the wait in dropAllConns
closeBegin(t) ==
    IF t.isClosed
    THEN Panic(t, "attempt to close torrent but is already closed")
    ELSE [closeDhtAnnounce(t) EXCEPT !.dropC = TRUE]

\* dropAllConns not waiting for the sessions
dropAllConnsNoWait(t) == TRUE

\* dropAllConns waits for the dropped signal of every session of t.conns
dropAllConnsDone(t) ==
    \A i \in DOMAIN t.conns : t.sessState[t.conns[i]] = "dropped"

\* Torrent.close whose deferred function does not close ClosedC
closeEndNoSignal(t) ==
    [t EXCEPT !.conns = <<>>, !.trackerTimer = FALSE, !.dhtTimer = FALSE,
              !.unchoked = {}, !.recvC = <<>>, !.newConnC = <<>>,
              !.pieces = NilPieces, !.pcs = NoPcs, !.infoBytes = NilBytes,
              !.peers = <<>>,
              !.isClosed = TRUE]

\* Torrent.close after the wait, with its deferred function
closeEnd(t) ==
    [t EXCEPT !.conns = <<>>, !.trackerTimer = FALSE, !.dhtTimer = FALSE,
              !.unchoked = {}, !.recvC = <<>>, !.newConnC = <<>>,
              !.pieces = NilPieces, !.pcs = NoPcs, !.infoBytes = NilBytes,
              !.peers = <<>>,
              !.ClosedC = TRUE, !.isClosed = TRUE]

\* ------------------------------------------------------- exported methods
\* StartDataTransfer under the torrent lock
startDataTransfer(t) ==
    IF ~haveInfo(t) THEN {<<t, "NoInfo">>}
    ELSE IF t.uploadEnabled \/ t.downloadEnabled THEN {<<t, "AlreadyStarted">>}
    ELSE {<<t1, "ok">> :
            t1 \in dialConns([t EXCEPT !.uploadEnabled = TRUE,
                                       !.downloadEnabled = TRUE])}

\* AddPeers under the torrent lock
addPeers(t, ps) == {<<t1, "ok">> : t1 \in gotPeers(t, ps)}

\* the runs explored: one caller and many sessions; many callers and one
\* session; one caller, one session and many candidates
\* the exported methods a caller may call
Ops == {"Close", "StartDataTransfer", "AddPeers"}

Scopes ==
    {[callers |-> 1, sessions |-> NumSessions, addrs |-> 1, peers |-> 0,
      ops |-> Ops, again |-> TRUE],
     [callers |-> NumCallers, sessions |-> 1, addrs |-> 1, peers |-> 1,
      ops |-> Ops, again |-> TRUE],
     [callers |-> 1, sessions |-> 1, addrs |-> NumAddrs, peers |-> MaxPeers,
      ops |-> Ops, again |-> TRUE]}

\* ------------------------------------------------------------------- Init
\* newTorrent: what every new torrent starts with; a client with a tracker
\* announcer, with a DHT server, or with neither
InitNew(S) ==
    /\ conns = <<>> /\ peers = <<>> /\ halfOpen = {}
    /\ dials = [a \in Addrs |-> 0]
    /\ newConnC = <<>> /\ recvC = <<>> /\ blackList = {}
    /\ infoBytes = NilBytes
    /\ ownedInfoBlocks = <<>> /\ infoSizeFreq = NoSizes /\ reader = NoReader
    /\ uploadEnabled = FALSE /\ downloadEnabled = FALSE
    /\ isClosed = FALSE /\ ClosedC = FALSE /\ dropC = FALSE
    /\ canAnnounceTracker = TRUE /\ trackerEvents = <<>> /\ trackerTimer = FALSE
    /\ canAnnounceDht = TRUE /\ dhtPeers = FALSE /\ dhtTimer = FALSE
    /\ unchoked = {} /\ sendC = [c \in Sessions |-> <<>>]
    /\ rejected = {} /\ aggregating = {}
    /\ loop = "start" /\ panicMsg = ""
    /\ dhtServer \in BOOLEAN /\ trackers \in BOOLEAN /\ ~(dhtServer /\ trackers)
    /\ sessState = [c \in Sessions |-> "free"]
    /\ sessAddr = [c \in Sessions |-> 0]
    /\ sessDHT = [c \in Sessions |-> FALSE]
    /\ connRecvC = [c \in Sessions |-> <<>>]
    /\ nextSess = 1
    /\ kicked = {}
    /\ sessScore = [c \in Sessions |-> 0]
    /\ queuedForVerification = {}
    /\ pieceQueuedHashingC = <<>> /\ hashing = {} /\ numVerified = 0
    /\ hasherExited = FALSE
    /\ pieceHashedC = <<>>
    /\ pc = [u \in Callers |-> "idle"]
    /\ op = [u \in Callers |-> ""]
    /\ result = [u \in Callers |-> ""]
    /\ scope \in S

\* a torrent added from a file (gotInfo has run, with or without a complete
\* copy on disk) or from an info hash alone
InitLoaded(S) ==
    /\ InitNew(S)
    /\ info \in BOOLEAN /\ InfoC = info
    /\ pieces \in IF info THEN {[nil |-> FALSE, owned |-> {}],
                                [nil |-> FALSE, owned |-> Pieces]}
                  ELSE {NilPieces}
    /\ pcs = IF pieces.nil THEN NoPcs
             ELSE IF pieces.owned = {} THEN newPieces ELSE swapped(newPieces, Pieces)
    /\ DownloadedDataC = (info /\ pieces.owned = Pieces)
    /\ hasherStarted = (info /\ pieces.owned # Pieces)
    /\ storage = IF info /\ pieces.owned = Pieces THEN Content ELSE NoContent

InitScoped(S) == InitLoaded(S) /\ dec = NoDec

Init == InitScoped(Scopes)

Alive == panicMsg = "" /\ scope' = scope

\* peers that are candidates or being dialed
Outstanding ==
    LET RECURSIVE sumDials(_)
        sumDials(S) == IF S = {} THEN 0
                       ELSE LET a == CHOOSE x \in S : TRUE
                            IN dials[a] + sumDials(S \ {a})
    IN Len(peers) + sumDials(Addrs)

\* the peers of one tracker response or one AddPeers call
MaxList == IF "list" \in DOMAIN scope THEN scope.list ELSE 2

PeerLists ==
    {ps \in SeqsUpTo(1..scope.addrs, MaxList) :
        Outstanding + Len(ps) <= scope.peers}

\* ------------------------------------------------- the coordinator's loop
MainLoopStart ==
    /\ Alive /\ loop = "start"
    /\ Commit([tryAnnounceAll(Tor) EXCEPT !.loop = "select"])
    /\ UNCHANGED userVars

\* case ci := <-t.newConnC
OnNewConn ==
    /\ Alive /\ loop = "select" /\ newConnC # <<>>
    /\ Commit(establishedConnection([Tor EXCEPT !.newConnC = Tail(@)],
                                    Head(newConnC)))
    /\ UNCHANGED userVars

\* case e := <-t.recvC
OnConnMsg ==
    /\ Alive /\ loop = "select" /\ recvC # <<>>
    /\ LET e == Head(recvC)
           t == [Tor EXCEPT !.recvC = Tail(@)]
       IN \E t1 \in onConnMsg(t, e[1], e[2]) : Commit(t1)
    /\ UNCHANGED userVars

\* case res := <-t.pieceHashedC
OnPieceHashed ==
    /\ Alive /\ loop = "select" /\ pieceHashedC # <<>>
    /\ LET res == Head(pieceHashedC)
       IN Commit(onPieceHashed([Tor EXCEPT !.pieceHashedC = Tail(@)], res[1], res[2]))
    /\ UNCHANGED userVars

\* case <-t.choker.ticker.C
OnChokerTick ==
    /\ Alive /\ loop = "select"
    /\ Commit(reviewUnchokedPeers(Tor))
    /\ UNCHANGED userVars

\* case tresp := <-t.trackerAnnouncerResponseC
OnTrackerAnnounced ==
    /\ Alive /\ loop = "select" /\ trackerEvents # <<>>
    /\ \E err \in BOOLEAN, ps \in PeerLists :
         /\ err => ps = <<>>
         /\ \E t1 \in trackerAnnounced([Tor EXCEPT !.trackerEvents = Tail(@)],
                                       err, ps) : Commit(t1)
    /\ UNCHANGED userVars

\* case <-t.trackerAnnouncerTimer.C
OnTrackerTimer ==
    /\ Alive /\ loop = "select" /\ trackerTimer
    /\ Commit(tryAnnounceAll([Tor EXCEPT !.trackerTimer = FALSE,
                                         !.canAnnounceTracker = TRUE]))
    /\ UNCHANGED userVars

\* case pvs, ok := <-t.dhtAnnounceResp.Peers
OnDhtPeers ==
    /\ Alive /\ loop = "select" /\ dhtPeers
    /\ \E ok \in BOOLEAN, ps \in PeerLists :
         /\ ~ok => ps = <<>>
         /\ \E t1 \in dhtAnnounced([Tor EXCEPT !.dhtPeers = ok], ps) : Commit(t1)
    /\ UNCHANGED userVars

\* case <-t.dhtAnnounceTimer.C
OnDhtTimer ==
    /\ Alive /\ loop = "select" /\ dhtTimer
    /\ Commit(tryAnnounceAll(closeDhtAnnounce(
           [Tor EXCEPT !.dhtTimer = FALSE, !.canAnnounceDht = TRUE])))
    /\ UNCHANGED userVars

\* ---------------------------------------------------- sessions and dials
\* a connection handshaked: newConn hands the session to t.newConnC (a send
\* on the nil channel of a closed torrent never completes)
newSession(t, c, a, dht) ==
    [t EXCEPT !.sessState[c] = "live", !.sessAddr[c] = a, !.sessDHT[c] = dht,
              !.nextSess = c + 1, !.newConnC = Append(@, c)]

DhtBits == IF dhtServer THEN BOOLEAN ELSE {FALSE}

\* Client.handleConn: an incoming connection for this torrent
Accept ==
    /\ Alive /\ ~isClosed /\ nextSess <= scope.sessions
    /\ \E a \in 1..scope.addrs, dht \in DhtBits :
         Commit(newSession(Tor, nextSess, a, dht))
    /\ UNCHANGED userVars

\* makeOutgoingConnection ends without a connection
DialFail ==
    /\ Alive
    /\ \E a \in Addrs :
         /\ dials[a] > 0
         /\ \E t1 \in removeHalfOpen([Tor EXCEPT !.dials[a] = @ - 1], a) : Commit(t1)
    /\ UNCHANGED userVars

\* makeOutgoingConnection ends with a handshaked connection
DialSucceed ==
    /\ Alive /\ ~isClosed /\ nextSess <= scope.sessions
    /\ \E a \in Addrs, dht \in DhtBits :
         /\ dials[a] > 0
         /\ \E t1 \in removeHalfOpen(
                 newSession([Tor EXCEPT !.dials[a] = @ - 1], nextSess, a, dht), a) :
               Commit(t1)
    /\ UNCHANGED userVars

\* the session pushes an event on its inbound channel ci.recvC
pushEvent(t, c, kind, p, b) ==
    [t EXCEPT !.connRecvC[c] = Append(@, [kind |-> kind, pc |-> p, off |-> b])]

\* the session leaves: it reports connDroped and closes droppedC
sessionExit(t, c) ==
    LET t1 == [t EXCEPT !.sessState[c] = "dropped"]
        t2 == IF inFlight(t1, c) # {}
              THEN pushEvent(discardRequests(t1, c), c, "discardedRequests", 0, 0)
              ELSE t1
    IN pushEvent(t2, c, "connDroped", 0, 0)

\* the session takes the next command of its outbound channel
SessionRecv ==
    /\ Alive
    /\ \E c \in Sessions :
         /\ sessState[c] = "live" /\ sendC[c] # <<>>
         /\ LET t == [Tor EXCEPT !.sendC[c] = Tail(@)]
            IN Commit(IF Head(sendC[c]) = "drop" THEN sessionExit(t, c) ELSE t)
    /\ UNCHANGED userVars

\* the peer hangs up, the socket fails, or the session sees dropC closed
SessionDrop ==
    /\ Alive
    /\ \E c \in Sessions : sessState[c] = "live" /\ Commit(sessionExit(Tor, c))
    /\ UNCHANGED userVars

\* an aggregator that forwards the newest event of the session first
aggregateEventsNewest(t, c) ==
    LET n == Len(t.connRecvC[c])
    IN [t EXCEPT !.connRecvC[c] = SubSeq(@, 1, n - 1),
                 !.recvC = Append(@, <<c, t.connRecvC[c][n]>>)]

\* Torrent.aggregateEvents: for e := range ci.recvC { t.recvC <- ... }
aggregateEvents(t, c) ==
    [t EXCEPT !.connRecvC[c] = Tail(@),
              !.recvC = Append(@, <<c, Head(t.connRecvC[c])>>)]

AggregateEvents ==
    /\ Alive /\ ~isClosed
    /\ \E c \in aggregating :
         /\ connRecvC[c] # <<>>
         /\ Commit(aggregateEvents(Tor, c))
    /\ UNCHANGED userVars

\* the events of session c that wait for the coordinator
waiting(c) ==
    Len(connRecvC[c]) + Cardinality({i \in DOMAIN recvC : recvC[i][1] = c})

\* an admitted session asks the selector for its next request
SessionRequest ==
    /\ Alive /\ ~isClosed /\ downloadEnabled
    /\ \E c \in aggregating, pb \in nextBlock(Tor) :
         /\ sessState[c] = "live"
         /\ Commit(requestBlock(Tor, c, pb[1], pb[2]))
    /\ UNCHANGED userVars

\* the blocks a peer may send for the block at offset o: the seeder's, or
\* other bytes while no session has the score that ends the run
PeerData(o) ==
    {Content[o]} \cup
    (IF ~Honest /\ \A c \in Sessions : sessScore[c] < MaxScore
     THEN {Junk} ELSE {})

\* the peer sends a block the session asked for: the session writes it to
\* the storage and pushes a downloadedBlock event
SessionDownload ==
    /\ Alive /\ ~isClosed
    /\ \E c \in aggregating :
         /\ sessState[c] = "live" /\ waiting(c) < MaxEvents
         /\ \E pb \in inFlight(Tor, c) :
            \E data \in PeerData(pb[1] * PieceLen + pb[2] * BlockLen) :
              Commit(pushEvent(writeBlock([Tor EXCEPT !.pcs[pb[1]].req[pb[2]] = 0],
                                          data, pb[1], pb[2] * BlockLen),
                               c, "downloadedBlock", pb[1], pb[2]))
    /\ UNCHANGED userVars

\* pieceHasher.Run: case piece := <-p.t.pieceQueuedHashingCh
HasherTake ==
    /\ Alive /\ hasherStarted /\ ~hasherExited
    /\ hashing = {} /\ pieceQueuedHashingC # <<>>
    /\ Commit([Tor EXCEPT !.hashing = {Head(pieceQueuedHashingC)},
                          !.pieceQueuedHashingC = Tail(@)])
    /\ UNCHANGED userVars

\* a hasher that goes on when it has verified every piece
hasherReportNoReturn(t, i, correct) ==
    [t EXCEPT !.hashing = {},
              !.pieceHashedC = Append(@, <<i, correct>>),
              !.numVerified = IF correct THEN @ + 1 ELSE @]

\* pieceHasher.Run after HashPiece: the result is sent; the hasher returns
\* when it has verified every piece
hasherReport(t, i, correct) ==
    [t EXCEPT !.hashing = {},
              !.pieceHashedC = Append(@, <<i, correct>>),
              !.numVerified = IF correct THEN @ + 1 ELSE @,
              !.hasherExited = correct /\ t.numVerified + 1 = NumPieces]

\* pieceHasher.Run: the piece is hashed and the result is sent
HasherDone ==
    /\ Alive
    /\ Len(pieceHashedC) < NumPieces
    /\ \E i \in hashing :
         \E correct \in {HashPiece(storage, i, pieceLen(i))} :
           /\ ~correct => \A c \in Sessions : sessScore[c] < MaxScore
           /\ Commit(hasherReport(Tor, i, correct))
    /\ UNCHANGED userVars

\* a hasher that does not look at the closed signal
hasherClosedNoReturn(t) == t

\* pieceHasher.Run: case <-p.t.closed: return
hasherClosed(t) == [t EXCEPT !.hasherExited = TRUE]

\* the hasher, at its select, finds the closed signal closed
HasherExit ==
    /\ Alive /\ hasherStarted /\ ~hasherExited
    /\ hashing = {} /\ ClosedC
    /\ Commit(hasherClosed(Tor))
    /\ UNCHANGED userVars

\* ------------------------------------------------------------- callers

\* a goroutine calls an exported method
Call ==
    /\ Alive
    /\ \E u \in 1..scope.callers, o \in scope.ops :
         /\ pc[u] = "idle"
         /\ pc' = [pc EXCEPT ![u] = "lock"]
         /\ op' = [op EXCEPT ![u] = o]
    /\ UNCHANGED <<torVars, result>>

\* torrentLocker.lock, the coordinator being at its select: case userDone := <-t.userC
\* mainLoop taking a request of userC without waiting for its ack
onUserCommandNoWait(t) == t

\* mainLoop: case userDone := <-t.userC: <-userDone; the coordinator waits for
\* the ack and runs nothing else
onUserCommand(t) == [t EXCEPT !.loop = "parked"]

LockAcquire ==
    /\ Alive /\ loop = "select"
    /\ \E u \in Callers :
         /\ pc[u] = "lock"
         /\ op[u] = "AddPeers" => PeerLists # {<<>>}
         /\ pc' = [pc EXCEPT ![u] = "body"]
    /\ Commit(onUserCommand(Tor))
    /\ UNCHANGED <<op, result>>

\* torrentLocker.lock on a closed torrent: the call ends with the Closed error
lockClosed(u) ==
    /\ Alive /\ ClosedC
    /\ pc[u] = "lock"
    /\ pc' = [pc EXCEPT ![u] = "return"]
    /\ result' = [result EXCEPT ![u] = IF op[u] = "Close" THEN "ok" ELSE "Closed"]
    /\ UNCHANGED <<torVars, op>>

LockClosed == \E u \in Callers : lockClosed(u)

\* the body of StartDataTransfer or AddPeers (with the caller's list of peers)
UserBody ==
    /\ Alive
    /\ \E u \in Callers :
         /\ pc[u] = "body" /\ op[u] \in {"StartDataTransfer", "AddPeers"}
         /\ \E r \in (IF op[u] = "AddPeers"
                      THEN UNION {addPeers(Tor, ps) : ps \in PeerLists \ {<<>>}}
                      ELSE startDataTransfer(Tor)) :
              /\ Commit(r[1])
              /\ result' = [result EXCEPT ![u] = r[2]]
         /\ pc' = [pc EXCEPT ![u] = "unlock"]
    /\ UNCHANGED op

\* Close: Torrent.close up to the wait for the sessions
CloseBegin ==
    /\ Alive
    /\ \E u \in Callers :
         /\ pc[u] = "body" /\ op[u] = "Close"
         /\ pc' = [pc EXCEPT ![u] = "dropAll"]
    /\ Commit(closeBegin(Tor))
    /\ UNCHANGED <<op, result>>

\* Close: every session of t.conns has dropped; the rest of Torrent.close
CloseEnd ==
    /\ Alive /\ dropAllConnsDone(Tor)
    /\ \E u \in Callers :
         /\ pc[u] = "dropAll"
         /\ pc' = [pc EXCEPT ![u] = "unlock"]
         /\ result' = [result EXCEPT ![u] = "ok"]
    /\ Commit(closeEnd(Tor))
    /\ UNCHANGED op

\* mainLoop going on after the ack of a closed torrent
afterUserCommandNoExit(t) == [t EXCEPT !.loop = "select"]

\* after the ack the coordinator leaves its loop if the torrent is closed
afterUserCommand(t) == [t EXCEPT !.loop = IF t.isClosed THEN "exited" ELSE "select"]

\* torrentLocker.unlock: the ack; mainLoop resumes after <-userDone
Unlock ==
    /\ Alive
    /\ \E u \in Callers :
         /\ pc[u] = "unlock"
         /\ pc' = [pc EXCEPT ![u] = "return"]
    /\ Commit(afterUserCommand(Tor))
    /\ UNCHANGED <<op, result>>

\* the call returns to its caller
Return ==
    /\ Alive
    /\ \E u \in Callers :
         /\ pc[u] = "return"
         /\ pc' = [pc EXCEPT ![u] = IF scope.again THEN "idle" ELSE "done"]
         /\ op' = [op EXCEPT ![u] = ""]
         /\ result' = [result EXCEPT ![u] = ""]
    /\ UNCHANGED torVars

Next ==
    \/ MainLoopStart \/ OnNewConn \/ OnConnMsg \/ OnChokerTick
    \/ OnTrackerAnnounced \/ OnTrackerTimer \/ OnDhtPeers \/ OnDhtTimer
    \/ Accept \/ DialFail \/ DialSucceed
    \/ SessionRecv \/ SessionDrop \/ AggregateEvents
    \/ Call \/ LockAcquire \/ LockClosed \/ UserBody
    \/ CloseBegin \/ CloseEnd \/ Unlock \/ Return

Spec == Init /\ [][Next]_vars

\* ------------------------------------------------- the run of a download
\* a torrent added from a file, a client with a tracker announcer, two peers
PieceScope ==
    [callers |-> 1, sessions |-> 1, addrs |-> 1, peers |-> 0,
     ops |-> {"StartDataTransfer"}, again |-> FALSE]

InitPieces == InitScoped({PieceScope}) /\ info /\ trackers

NextPieces ==
    \/ MainLoopStart \/ OnNewConn \/ OnConnMsg \/ OnPieceHashed \/ OnChokerTick
    \/ OnTrackerAnnounced \/ OnTrackerTimer
    \/ Accept \/ SessionRecv \/ SessionDrop \/ AggregateEvents
    \/ SessionRequest \/ SessionDownload \/ HasherTake \/ HasherDone
    \/ Call \/ LockAcquire \/ UserBody \/ Unlock \/ Return

SpecPieces == InitPieces /\ [][NextPieces]_vars

\* ------------------------------------------------- the run of a failed hash
\* the sessions are all in use: no further connection arrives
BanScope ==
    [callers |-> 1, sessions |-> 0, addrs |-> NumAddrs, peers |-> 0,
     ops |-> {}, again |-> TRUE]

\* the active sets: up to maxEstablishedConnections sessions in any order
ActiveSets ==
    {cs \in SeqsUpTo(Sessions, maxEstablishedConnections) :
        \A i, j \in DOMAIN cs : i # j => cs[i] # cs[j]}

\* the commands a session may have left unread: none, one, or a full channel
Backlogs == {[i \in 1..n |-> "requestsAvailable"] : n \in {0, 1, SendCCap}}

\* a started download at the moment the hasher has reported the first piece
\* as bad: the sessions of the active set are live and have their scores from
\* earlier failures, the blocks of the piece came from them or from sessions
\* that have left
InitBan ==
    /\ conns \in ActiveSets /\ peers = <<>> /\ halfOpen = {}
    /\ dials = [a \in Addrs |-> 0]
    /\ newConnC = <<>> /\ recvC = <<>> /\ blackList = {}
    /\ info = TRUE /\ infoBytes = NilBytes
    /\ ownedInfoBlocks = <<>> /\ infoSizeFreq = NoSizes /\ reader = NoReader
    /\ hasherStarted = TRUE
    /\ pieces = [nil |-> FALSE, owned |-> {}]
    /\ uploadEnabled = TRUE /\ downloadEnabled = TRUE
    /\ isClosed = FALSE /\ ClosedC = FALSE /\ dropC = FALSE /\ InfoC = TRUE
    /\ canAnnounceTracker = TRUE /\ trackerEvents = <<>> /\ trackerTimer = FALSE
    /\ canAnnounceDht = TRUE /\ dhtPeers = FALSE /\ dhtTimer = FALSE
    /\ unchoked = {conns[i] : i \in 1..Min(MaxUnchoked, Len(conns))}
    /\ sendC \in [Sessions -> Backlogs]
    /\ \A c \in Sessions \ Range(conns) : sendC[c] = <<>>
    /\ rejected = {} /\ aggregating = Range(conns)
    /\ loop = "select" /\ panicMsg = ""
    /\ dhtServer = FALSE /\ trackers = FALSE
    /\ sessState = [c \in Sessions |-> IF c \in Range(conns) THEN "live" ELSE "free"]
    /\ sessAddr = [c \in Sessions |->
                     IF c \in Range(conns) THEN ((c - 1) % NumAddrs) + 1 ELSE 0]
    /\ sessDHT = [c \in Sessions |-> FALSE]
    /\ connRecvC = [c \in Sessions |-> <<>>]
    /\ nextSess = NumSessions + 1
    /\ kicked = {}
    /\ sessScore \in [Sessions -> 0..MaxScore]
    /\ \A c \in Sessions \ Range(conns) : sessScore[c] = 0
    /\ \E by \in [Blocks -> Range(conns) \cup {0}] :
          pcs = [newPieces EXCEPT ![0] = [swapped(newPieces, {0})[0] EXCEPT !.by = by]]
    /\ queuedForVerification = {0}
    /\ pieceQueuedHashingC = <<>> /\ hashing = {} /\ numVerified = 0
    /\ hasherExited = FALSE /\ dec = NoDec
    /\ pieceHashedC = <<<<0, FALSE>>>>
    /\ storage = [o \in Offsets |-> IF o < PieceLen THEN Junk ELSE 0]
    /\ DownloadedDataC = FALSE
    /\ pc = [u \in Callers |-> "idle"]
    /\ op = [u \in Callers |-> ""]
    /\ result = [u \in Callers |-> ""]
    /\ scope = BanScope

NextBan ==
    \/ OnPieceHashed \/ OnConnMsg \/ SessionRecv \/ SessionDrop \/ AggregateEvents

SpecBan == InitBan /\ [][NextBan]_vars

\* ------------------------------------------------------ the dialer's run
\* a torrent added from a file, no announcer: a caller starts the transfer
\* and adds peers, whose dials fail or succeed; peers connect to us too
DialScope ==
    [callers |-> NumCallers, sessions |-> maxEstablishedConnections,
     addrs |-> NumAddrs, peers |-> MaxPeers, list |-> MaxPeers,
     ops |-> {"StartDataTransfer", "AddPeers"}, again |-> FALSE]

InitDial ==
    /\ InitScoped({DialScope})
    /\ info /\ pieces.owned = {} /\ ~trackers /\ ~dhtServer

NextDial ==
    \/ MainLoopStart \/ OnNewConn \/ OnConnMsg
    \/ Accept \/ DialFail \/ DialSucceed
    \/ SessionRecv \/ SessionDrop \/ AggregateEvents
    \/ Call \/ LockAcquire \/ UserBody \/ Unlock \/ Return

\* every dial ends (the dial timeout). Nothing else is assumed to happen: a
\* dial that ends calls the dialer itself
FairDial == WF_vars(DialFail \/ DialSucceed)

SpecDial == InitDial /\ [][NextDial]_vars /\ FairDial

\* ------------------------------------------------- the run of a leech
\* a leecher added from a file with nothing on disk, no announcer: a caller
\* starts the transfer, another gives the address of the seeder, who sends
\* its own bytes. The content is a byte short of whole pieces, or whole
LeechScopes ==
    {[callers |-> NumCallers, sessions |-> 1, addrs |-> 1, peers |-> 1,
      list |-> 1, ops |-> {"StartDataTransfer", "AddPeers"}, again |-> FALSE,
      honest |-> TRUE, length |-> n] : n \in Lengths}

InitLeech ==
    /\ InitScoped(LeechScopes)
    /\ info /\ pieces.owned = {} /\ ~trackers /\ ~dhtServer

\* the connection stays up: the peer does not end the session
NextLeech ==
    \/ MainLoopStart \/ OnNewConn \/ OnConnMsg \/ OnPieceHashed \/ OnChokerTick
    \/ DialFail \/ DialSucceed \/ SessionRecv \/ AggregateEvents
    \/ SessionRequest \/ SessionDownload \/ HasherTake \/ HasherDone
    \/ Call \/ LockAcquire \/ UserBody \/ Unlock \/ Return

\* the coordinator, the hasher, the session, its aggregator and the peer run
\* on; a call that was made goes on to its return. Nothing makes a caller
\* call or a dial succeed
FairLeech ==
    /\ WF_vars(MainLoopStart) /\ WF_vars(OnNewConn) /\ WF_vars(OnConnMsg)
    /\ WF_vars(OnPieceHashed)
    /\ WF_vars(SessionRecv) /\ WF_vars(AggregateEvents)
    /\ WF_vars(SessionRequest) /\ WF_vars(SessionDownload)
    /\ WF_vars(HasherTake) /\ WF_vars(HasherDone)
    /\ WF_vars(LockAcquire) /\ WF_vars(UserBody) /\ WF_vars(Unlock)
    /\ WF_vars(Return)

SpecLeech == InitLeech /\ [][NextLeech]_vars /\ FairLeech

\* ------------------------------------------------- the hasher's run
\* a leecher with one peer that sends the seeder's bytes; a caller starts the
\* transfer, a caller closes the torrent
HasherScope ==
    [callers |-> NumCallers, sessions |-> 1, addrs |-> 1, peers |-> 0,
     ops |-> {"StartDataTransfer", "Close"}, again |-> FALSE, honest |-> TRUE]

InitHasher ==
    /\ InitScoped({HasherScope})
    /\ info /\ pieces.owned = {} /\ ~trackers /\ ~dhtServer

NextHasher ==
    \/ MainLoopStart \/ OnNewConn \/ OnConnMsg \/ OnPieceHashed
    \/ Accept \/ SessionRecv \/ SessionDrop \/ AggregateEvents
    \/ SessionRequest \/ SessionDownload
    \/ HasherTake \/ HasherDone \/ HasherExit
    \/ Call \/ LockAcquire \/ LockClosed \/ UserBody
    \/ CloseBegin \/ CloseEnd \/ Unlock \/ Return

\* the hasher's goroutine runs on; nothing else is assumed to
FairHasher == WF_vars(HasherTake) /\ WF_vars(HasherDone) /\ WF_vars(HasherExit)

SpecHasher == InitHasher /\ [][NextHasher]_vars /\ FairHasher

\* ------------------------------------------------- the metadata exchange
\* sizes advertised in all
MaxAdverts == 2

MetaScope ==
    [callers |-> 1, sessions |-> 1, addrs |-> 1, peers |-> 0,
     ops |-> {}, again |-> FALSE]

\* the metadata blocks peers send: a byte, a whole block or a byte more, with
\* the bytes of the info dictionary or with others
MetaBlocks ==
    [len : {1, metadataPieceSz, metadataPieceSz + 1}, good : BOOLEAN]

\* a torrent added by its info hash: the info is to be fetched from peers.
\* t.mi.Info is nil, or is allocated and holds the hash alone
InitMeta ==
    /\ InitNew({MetaScope}) /\ dec = NoDec
    /\ info \in BOOLEAN /\ InfoC = FALSE
    /\ pieces = NilPieces /\ pcs = NoPcs
    /\ DownloadedDataC = FALSE /\ hasherStarted = FALSE
    /\ storage = NoContent
    /\ ~dhtServer /\ ~trackers

adverts == LET RECURSIVE sum(_)
               sum(S) == IF S = {} THEN 0
                         ELSE LET x == CHOOSE y \in S : TRUE
                              IN infoSizeFreq[x] + sum(S \ {x})
           IN sum(InfoSizes)

\* a peer's extension handshake advertises the size of the info
Advertise ==
    /\ Alive /\ ~InfoC /\ adverts < MaxAdverts
    /\ \E s \in InfoSizes : Commit([Tor EXCEPT !.infoSizeFreq[s] = @ + 1])
    /\ UNCHANGED userVars

\* the download of the info begins
DownloadMetadata ==
    /\ Alive /\ ~InfoC /\ infoBytes = NilBytes
    /\ \E r \in downloadMetadata(Tor) : Commit(r[1])
    /\ UNCHANGED userVars

\* a session has received block i of the info from its peer
WriteMetadataPiece ==
    /\ Alive /\ infoBytes # NilBytes
    /\ \E b \in MetaBlocks, i \in 0..InfoBlocks :
         \E r \in writeMetadataPiece(Tor, b, i) : Commit(r[1])
    /\ UNCHANGED userVars

\* a session serves block i of the info to its peer
ReadMetadataPiece ==
    /\ Alive /\ InfoC
    /\ \E i \in 0..InfoBlocks : Commit(callReadMetadataPiece(Tor, i))
    /\ UNCHANGED userVars

NextMeta ==
    \/ Advertise \/ DownloadMetadata \/ WriteMetadataPiece \/ ReadMetadataPiece

SpecMeta == InitMeta /\ [][NextMeta]_vars

\* ------------------------------------------------------------ bencode
\* the digits of the inputs
Digits == {"0", "1", "2"}
DigitVal == ("0" :> 0) @@ ("1" :> 1) @@ ("2" :> 2)

\* bytes.NewBuffer(data): the bytes, the read offset, and whether the last
\* operation was a read that can be unread
NewBuffer(data) == [buf |-> data, off |-> 0, lastRead |-> FALSE]

\* r.b.Len(): the unread bytes
bufLen(b) == Len(b.buf) - b.off

\* r.b.ReadByte(): at the end of the bytes the buffer is reset
ReadByte(b) ==
    IF b.off >= Len(b.buf)
    THEN [b |-> NewBuffer(<<>>), c |-> "", err |-> "EOF"]
    ELSE [b |-> [b EXCEPT !.off = @ + 1, !.lastRead = TRUE],
          c |-> b.buf[b.off + 1], err |-> ""]

\* r.b.UnreadByte(): the last byte of the latest read is given back, once
UnreadByte(b) ==
    IF ~b.lastRead
    THEN [b |-> b, err |-> "UnreadByte: previous operation was not a successful read"]
    ELSE [b |-> [b EXCEPT !.lastRead = FALSE,
                          !.off = IF @ > 0 THEN @ - 1 ELSE @],
          err |-> ""]

\* r.b.ReadString(delim): the bytes up to and with the delimiter, or all the
\* bytes left and io.EOF
ReadString(b, delim) ==
    LET at == {i \in (b.off + 1)..Len(b.buf) : b.buf[i] = delim}
        end == IF at = {} THEN Len(b.buf)
               ELSE CHOOSE i \in at : \A j \in at : i <= j
    IN [b |-> [b EXCEPT !.off = end, !.lastRead = TRUE],
        line |-> SubSeq(b.buf, b.off + 1, end),
        err |-> IF at = {} THEN "EOF" ELSE ""]

\* r.b.Next(n): the next n bytes, or those that are left
bufNext(b, n) ==
    LET m == Min(n, bufLen(b))
    IN [b |-> [b EXCEPT !.off = @ + m, !.lastRead = m > 0],
        data |-> SubSeq(b.buf, b.off + 1, b.off + m)]

RECURSIVE digitsValue(_)
digitsValue(s) ==
    IF s = <<>> THEN 0
    ELSE 10 * digitsValue(SubSeq(s, 1, Len(s) - 1)) + DigitVal[s[Len(s)]]

\* strconv.ParseInt(s, 10, 64) of unsigned digits
ParseInt(s) ==
    IF s # <<>> /\ \A i \in DOMAIN s : s[i] \in Digits
    THEN [n |-> digitsValue(s), err |-> ""]
    ELSE [n |-> 0, err |-> "invalid syntax"]

\* benReader.readBenString
readBenString(b) ==
    LET r == ReadString(b, ":")
        p == ParseInt(SubSeq(r.line, 1, Len(r.line) - 1))
        x == bufNext(r.b, p.n)
    IN IF r.err # "" THEN [b |-> r.b, val |-> <<>>, err |-> r.err]
       ELSE IF p.err # "" THEN [b |-> r.b, val |-> <<>>, err |-> p.err]
       ELSE IF Len(x.data) # p.n
       THEN [b |-> x.b, val |-> <<>>,
             err |-> "length of string does not correspond to his actual length"]
       ELSE [b |-> x.b, val |-> x.data, err |-> ""]

\* benReader.readBenInt
readBenInt(b) ==
    LET r == ReadString(b, "e")
        p == ParseInt(SubSeq(r.line, 2, Len(r.line) - 1))
    IN IF r.err # "" THEN [b |-> r.b, err |-> r.err]
       ELSE IF r.line[1] # "i"
       THEN [b |-> r.b, err |-> "Wanted integer but bencoded hasn't"]
       ELSE [b |-> r.b, err |-> p.err]

\* benReader.CheckEnd: is the next byte the 'e' that ends a list or a dict
CheckEnd(b) ==
    LET r == ReadByte(b)
        u == UnreadByte(r.b)
    IN IF r.err # "" THEN [b |-> r.b, ok |-> FALSE, err |-> r.err]
       ELSE IF r.c = "e" THEN [b |-> r.b, ok |-> TRUE, err |-> ""]
       ELSE [b |-> u.b, ok |-> FALSE, err |-> u.err]

\* the kinds of the fields: int64, string, []int64, []string
Kinds == {"int", "string", "ints", "strings"}

RECURSIVE decode(_, _)
\* readBenList's loop: elements are decoded until the 'e'
RECURSIVE listElems(_, _)
listElems(b, kind) ==
    LET ce == CheckEnd(b)
        e == decode(ce.b, kind)
    IN IF ce.err # "" THEN [b |-> ce.b, err |-> ce.err]
       ELSE IF ce.ok THEN [b |-> ce.b, err |-> ""]
       ELSE IF e.err # "" THEN e
       ELSE listElems(e.b, kind)

\* benReader.readBenList for a slice of the element kind
readBenList(b, kind) ==
    LET r == ReadByte(b)
    IN IF r.err # "" THEN [b |-> r.b, err |-> r.err]
       ELSE IF r.c # "l"
       THEN [b |-> r.b, err |-> "Bencoded has list whereas data structure doesn't."]
       ELSE listElems(r.b, kind)

\* decode(r, v) for a value of the kind: the reader and the error
decode(b, kind) ==
    IF kind = "int" THEN readBenInt(b)
    ELSE IF kind = "string"
    THEN LET r == readBenString(b) IN [b |-> r.b, err |-> r.err]
    ELSE IF kind = "ints" THEN readBenList(b, "int")
    ELSE readBenList(b, "string")

\* a call of Decode into a struct whose fields 1..Len(kinds), all optional,
\* share the key "a" and whose optional int field 0 has the key "b"
DecStart(data, kinds) ==
    [phase |-> "start", b |-> NewBuffer(data), kinds |-> kinds, next |-> 0,
     start |-> 0, set |-> {}, err |-> ""]

\* readBenDictStruct returns, and Decode with it
returned(d, b, err) == [d EXCEPT !.phase = "done", !.b = b, !.err = err]

\* readBenDictStruct: AssertDictStart
dictStart(d) ==
    LET r == ReadByte(d.b)
    IN IF r.err # "" THEN returned(d, r.b, r.err)
       ELSE IF r.c # "d"
       THEN returned(d, r.b, "Bencoded has dict whereas data structure doesn't.")
       ELSE [d EXCEPT !.phase = "key", !.b = r.b]

\* readBenDictStruct, one turn of its loop up to the switch: the end of the
\* dict, or a key; a key of one field has its value decoded
dictKey(d) ==
    LET ce == CheckEnd(d.b)
        k == readBenString(ce.b)
        v == decode(k.b, "int")
    IN IF ce.err # "" THEN returned(d, ce.b, ce.err)
       ELSE IF ce.ok THEN [d EXCEPT !.phase = "end", !.b = ce.b]
       ELSE IF k.err # "" THEN returned(d, k.b, k.err)
       ELSE IF k.val = <<"a">>
       THEN [d EXCEPT !.phase = "names", !.b = k.b, !.next = 1, !.start = k.b.off]
       ELSE IF k.val = <<"b">>
       THEN IF v.err # "" THEN returned(d, v.b, v.err)
            ELSE [d EXCEPT !.b = v.b, !.set = @ \cup {0}]
       ELSE returned(d, k.b, "No struct field with name")

\* for j := r.b.Len(); j < lenBefore; j++ { err = r.b.UnreadByte() ... }
RECURSIVE unreadLoop(_, _, _)
unreadLoop(b, j, lenBefore) ==
    IF j >= lenBefore THEN [b |-> b, err |-> ""]
    ELSE LET u == UnreadByte(b)
         IN IF u.err # "" THEN u ELSE unreadLoop(u.b, j + 1, lenBefore)

\* readBenDictStruct, one turn of the loop over the fields of one key: the
\* field is decoded; after a failure the bytes read are unread one by one
dictCandidate(d) ==
    LET lenBefore == bufLen(d.b)
        v == decode(d.b, d.kinds[d.next])
        u == unreadLoop(v.b, bufLen(v.b), lenBefore)
    IN IF v.err = ""
       THEN [d EXCEPT !.phase = "key", !.b = v.b, !.set = @ \cup {d.next}]
       ELSE IF u.err # "" THEN returned(d, u.b, u.err)
       ELSE IF d.next < Len(d.kinds) THEN [d EXCEPT !.b = u.b, !.next = @ + 1]
       ELSE [d EXCEPT !.phase = "key", !.b = u.b]

\* Decode after decode returned nil: no byte may be left
decodeEnd(d) ==
    LET r == ReadByte(d.b)
    IN returned(d, r.b,
                IF r.err = "EOF" THEN ""
                ELSE "data structure provided was filled but bencoded buffer wasn't consumed")

\* fields sharing the key
MaxCandidates == 2

\* the fields of the key in their order of declaration: distinct kinds
CandidateLists ==
    {ks \in UNION {[1..n -> Kinds] : n \in 2..MaxCandidates} :
        \A i, j \in DOMAIN ks : i # j => ks[i] # ks[j]}

\* values of the key "a": an int, strings, lists of either, and a dict
BenValues ==
    {<<"i", "1", "e">>, <<"1", ":", "a">>, <<"2", ":", "a", "a">>,
     <<"l", "i", "1", "e", "e">>, <<"l", "1", ":", "a", "e">>, <<"l", "e">>,
     <<"d", "e">>}

\* what follows the value: nothing, or the key "b" and an int
BenTails == {<<>>, <<"1", ":", "b", "i", "2", "e">>}

\* the inputs: dicts with the key "a", an empty dict, an int, no bytes
BenInputs ==
    {<<"d", "1", ":", "a">> \o v \o t \o <<"e">> : v \in BenValues, t \in BenTails}
        \cup {<<"d", "e">>, <<"i", "1", "e">>, <<>>}

BenScope ==
    [callers |-> 1, sessions |-> 1, addrs |-> 1, peers |-> 0,
     ops |-> {}, again |-> FALSE]

InitBencode ==
    /\ InitLoaded({BenScope})
    /\ info /\ pieces.owned = Pieces /\ ~trackers /\ ~dhtServer
    /\ dec \in {DecStart(data, ks) : data \in BenInputs, ks \in CandidateLists}

BenDictStart ==
    /\ Alive /\ dec.phase = "start"
    /\ Commit([Tor EXCEPT !.dec = dictStart(dec)])
    /\ UNCHANGED userVars

BenKey ==
    /\ Alive /\ dec.phase = "key"
    /\ Commit([Tor EXCEPT !.dec = dictKey(dec)])
    /\ UNCHANGED userVars

BenCandidate ==
    /\ Alive /\ dec.phase = "names"
    /\ Commit([Tor EXCEPT !.dec = dictCandidate(dec)])
    /\ UNCHANGED userVars

BenEnd ==
    /\ Alive /\ dec.phase = "end"
    /\ Commit([Tor EXCEPT !.dec = decodeEnd(dec)])
    /\ UNCHANGED userVars

NextBencode == BenDictStart \/ BenKey \/ BenCandidate \/ BenEnd

SpecBencode == InitBencode /\ [][NextBencode]_vars

\* ------------------------------------------------------------ properties
\* the session the coordinator is about to take from t.newConnC, and the
\* torrent as establishedConnection leaves it
AtNewConn == panicMsg = "" /\ loop = "select" /\ newConnC # <<>>
NewConn == Head(newConnC)
AfterNewConn == establishedConnection([Tor EXCEPT !.newConnC = Tail(@)], NewConn)

\* C1: in every reachable state the active set t.conns holds at most
\* maxEstablishedConnections sessions
C1_ActiveSetBounded == Len(conns) <= maxEstablishedConnections

\* the active set is full and a later session was rejected for it
C1_Witness ==
    /\ Len(conns) = maxEstablishedConnections /\ uploadEnabled
    /\ \E c \in rejected : \A i \in DOMAIN conns : conns[i] < c

\* C2: no two sessions of the active set have the same peer address
C2_OneSessionPerAddress ==
    \A i, j \in DOMAIN conns : sessAddr[conns[i]] = sessAddr[conns[j]] => i = j

\* the running dial tasks
inFlightDials ==
    LET RECURSIVE sumDials(_)
        sumDials(S) == IF S = {} THEN 0
                       ELSE LET a == CHOOSE x \in S : TRUE
                            IN dials[a] + sumDials(S \ {a})
    IN sumDials(Addrs)

\* C3: the dial tasks started by dialConns and not yet finished never number
\* more than maxHalfOpenConns
C3_DialsWithinLimit == inFlightDials <= maxHalfOpenConns

\* C4: a session taken from t.newConnC is appended to the active set if and
\* only if the active set is below its limit, transfer is enabled or the info
\* is unknown, and no session of the active set has its address
C4_AdmittedIff ==
    AtNewConn =>
        (NewConn \in Range(AfterNewConn.conns)
           <=> /\ Len(conns) < maxEstablishedConnections
               /\ uploadEnabled \/ downloadEnabled \/ ~info
               /\ ~peerInActiveConns(Tor, sessAddr[NewConn]))

\* C5: a session admitted to a torrent with its info known and a piece owned
\* finds haveInfo first and the bitfield second in its outbound channel
C5_HaveInfoThenBitfield ==
    (AtNewConn /\ wantConns(Tor) /\ info /\ ~pieces.nil /\ pieces.owned # {}) =>
        /\ NewConn \in Range(AfterNewConn.conns)
        /\ Len(AfterNewConn.sendC[NewConn]) >= 2
        /\ AfterNewConn.sendC[NewConn][1] = "haveInfo"
        /\ AfterNewConn.sendC[NewConn][2] = "bitfield"

\* an admitted session that has not read yet: haveInfo, bitfield, then the
\* choker's unchoke
C5_Witness ==
    \E c \in Range(conns) :
        /\ Len(sendC[c]) >= 3
        /\ sendC[c][1] = "haveInfo" /\ sendC[c][2] = "bitfield"
        /\ sendC[c][Len(sendC[c])] = "unchoke"

\* C6: a rejected session is sent drop and is not in the active set, and the
\* rejection leaves the active set, the candidates and the pieces as they were
C6_RejectionFrame ==
    /\ rejected \cap Range(conns) = {}
    /\ (AtNewConn /\ ~wantConns(Tor)) =>
          /\ AfterNewConn.sendC[NewConn] = Append(sendC[NewConn], "drop")
          /\ NewConn \in AfterNewConn.rejected
          /\ AfterNewConn.conns = conns
          /\ AfterNewConn.peers = peers
          /\ AfterNewConn.pieces = pieces

\* a session was rejected, its drop not read yet, while there were sessions or
\* candidates to leave alone
C6_Witness ==
    \E c \in rejected :
        /\ sendC[c] = <<"drop">>
        /\ conns # <<>> \/ peers # <<>>

\* C7: however many calls of Close are made, Torrent.close runs once, on an
\* open torrent, never panics for a closed one, and every Close returns
\* without error with the torrent closed
C7_CloseOnce ==
    /\ panicMsg # "attempt to close torrent but is already closed"
    /\ Cardinality({u \in Callers : pc[u] = "dropAll"}) <= 1
    /\ \A u \in Callers :
         /\ pc[u] = "dropAll" => ~isClosed /\ ~ClosedC
         /\ (op[u] = "Close" /\ pc[u] = "return") =>
               result[u] = "ok" /\ isClosed /\ ClosedC

\* two calls of Close have come back
C7_Witness ==
    \E u, v \in Callers :
        /\ u # v
        /\ op[u] = "Close" /\ pc[u] = "return"
        /\ op[v] = "Close" /\ pc[v] = "return"

\* on a closed torrent a waiting call can end, and no call but Close holds the
\* torrent lock
ClosedCallsEnd ==
    \A u \in Callers :
        /\ (panicMsg = "" /\ isClosed /\ pc[u] = "lock") => ENABLED lockClosed(u)
        /\ (isClosed /\ op[u] # "Close") => pc[u] \notin {"body", "dropAll", "unlock"}

\* C8: on a closed torrent a call of AddPeers or StartDataTransfer that waits
\* for the coordinator can end, and it ends without reaching its body, with
\* the Closed error and the torrent as it was
C8_ClosedCallsFail ==
    /\ []ClosedCallsEnd
    /\ [][\A u \in Callers :
            (isClosed /\ pc[u] = "lock" /\ pc'[u] # "lock" /\ op[u] # "Close") =>
                /\ pc'[u] = "return" /\ result'[u] = "Closed"
                /\ UNCHANGED torVars]_vars

\* a call of AddPeers or StartDataTransfer came back with Closed
C8_Witness ==
    \E u \in Callers :
        /\ isClosed /\ pc[u] = "return" /\ result[u] = "Closed"
        /\ op[u] \in {"AddPeers", "StartDataTransfer"}

\* the outcomes of StartDataTransfer for a caller in its body
AtStart == \E u \in Callers : pc[u] = "body" /\ op[u] = "StartDataTransfer"

C10_ClosedAfterDropped ==
    [][(~ClosedC /\ ClosedC') =>
          /\ dropC
          /\ \A i \in DOMAIN conns : sessState[conns[i]] = "dropped"]_vars

\* Close waited for the sessions of a full active set, which have all dropped
C10_Witness ==
    /\ \E u \in Callers : pc[u] = "dropAll"
    /\ dropC /\ Len(conns) >= 2
    /\ \A i \in DOMAIN conns : sessState[conns[i]] = "dropped"


\* the callers between the coordinator's receive of their request and the ack
holders == {u \in Callers : pc[u] \in {"body", "dropAll", "unlock"}}

\* a step of the coordinator running one of its event handlers
HandlerStep ==
    \/ OnNewConn \/ OnConnMsg \/ OnChokerTick \/ OnTrackerAnnounced
    \/ OnTrackerTimer \/ OnDhtPeers \/ OnDhtTimer

\* C12: user commands are linearized: at most one caller is between the
\* coordinator's receive of its request and its ack, the coordinator is parked
\* for all that time, and no event handler of the coordinator runs in it
C12_UserCommandsLinearized ==
    /\ [](Cardinality(holders) <= 1 /\ (holders # {} => loop = "parked"))
    /\ [][holders # {} => ~HandlerStep /\ ~LockAcquire]_vars

\* a second caller waits for the lock while the first runs its body and events
\* wait in the coordinator's queues
C12_Witness ==
    /\ \E u, v \in Callers : u # v /\ pc[u] = "body" /\ pc[v] = "lock"
    /\ newConnC # <<>>

\* C13: the peer candidates, the active set and the piece registry change only
\* in steps of the coordinator (its start, one of its handlers) or of a user
\* command that holds the parked coordinator; a finishing dial changes none
C13_CoordinatorOwnsState ==
    [][ (peers' # peers \/ conns' # conns \/ pieces' # pieces \/ pcs' # pcs)
          => MainLoopStart \/ HandlerStep \/ holders # {} ]_vars

\* t.conns without session c, the others in their order
without(cs, c) == LET other(x) == x # c IN SelectSeq(cs, other)

\* the session-dropped event the coordinator is about to handle
AtDropped == loop = "select" /\ recvC # <<>> /\ Head(recvC)[2].kind = "connDroped"
Dropped == Head(recvC)[1]

\* C18: the first session-dropped event of an active session removes exactly
\* that session and keeps the others in their order; handling the event again,
\* or an event of a session that is not active, changes nothing at all
C18_RemovalByIdentity ==
    \A c \in Sessions :
        IF c \in Range(conns)
        THEN \A t1 \in droppedConn(Tor, c) :
                /\ t1.conns = without(conns, c)
                /\ c \notin Range(t1.conns)
                /\ droppedConn(t1, c) = {t1}
        ELSE droppedConn(Tor, c) = {Tor}

\* the coordinator is about to handle the event of an active session that is
\* not the first of t.conns, and the handler leaves the first one alone
C18_Witness ==
    /\ AtDropped /\ Len(conns) = 2 /\ Dropped = conns[2]
    /\ \E t1 \in droppedConn(Tor, Dropped) :
          t1.conns = <<conns[1]>> /\ droppedConn(t1, Dropped) = {t1}

\* the commands the coordinator sends to sessions
Cmds ==
    {"haveInfo", "bitfield", "port", "unchoke", "choke", "have", "notInterested",
     "requestsAvailable", "drop"}

pushed(rc, crc, c) ==
    LET mine(m) == m[1] = c
        q == SelectSeq(rc, mine)
    IN [i \in 1..Len(q) |-> q[i][2]] \o crc[c]

underWay(t, i) ==
    Cardinality({k \in DOMAIN t.pieceQueuedHashingC : t.pieceQueuedHashingC[k] = i})
    + Cardinality(t.hashing \cap {i})
    + Cardinality({k \in DOMAIN t.pieceHashedC : t.pieceHashedC[k][1] = i})

\* C15: queueing a piece for hashing never blocks and never panics, and no
\* piece is twice among the hash queue, the piece being hashed and the results
\* the coordinator has not consumed, whichever piece the coordinator queues
C15_HashQueueNeverBlocks ==
    /\ panicMsg # "queue piece hash: should not block"
    /\ \A i \in Pieces : underWay(Tor, i) <= 1
    /\ \A i \in Pieces :
          LET t1 == queuePieceForHashing(Tor, i)
          IN /\ t1.panicMsg = panicMsg
             /\ \A j \in Pieces : underWay(t1, j) <= 1

\* both pieces are under way at once: one in the queue, the other hashed and
\* its result not consumed yet
C15_Witness ==
    /\ Len(pieceQueuedHashingC) = 1 /\ Len(pieceHashedC) = 1
    /\ pieceQueuedHashingC[1] # pieceHashedC[1][1]
    /\ queuePieceForHashing(Tor, pieceHashedC[1][1]) = Tor

\* the completed events among those submitted to the tracker announcer
completed(evs) == Cardinality({k \in DOMAIN evs : evs[k] = "completed"})

\* C16: DownloadedDataC is closed once and never again, at a moment when every
\* piece is verified; the completed event is submitted to the announcer only in
\* that step; once it is closed no piece is under way to or from the hasher,
\* so no later result closes it again
C16_DownloadedOnce ==
    /\ [](panicMsg # "close of closed channel")
    /\ [](DownloadedDataC => \A i \in Pieces : underWay(Tor, i) = 0)
    /\ [][/\ DownloadedDataC => DownloadedDataC'
          /\ ~DownloadedDataC /\ DownloadedDataC' => pieces'.owned = Pieces
          /\ completed(trackerEvents') > completed(trackerEvents) =>
                /\ ~DownloadedDataC /\ DownloadedDataC'
                /\ completed(trackerEvents') = completed(trackerEvents) + 1]_vars

\* the download has ended: the hasher verified every piece, the signal is
\* closed, the completed event waits for the announcer
C16_Witness ==
    /\ DownloadedDataC /\ numVerified = NumPieces /\ pieces.owned = Pieces
    /\ completed(trackerEvents) = 1 /\ panicMsg = ""

\* the three block sets of piece p partition its blocks
partitioned(p) ==
    /\ p.unrequestedBlocks \cap p.pendingBlocks = {}
    /\ p.unrequestedBlocks \cap p.completeBlocks = {}
    /\ p.pendingBlocks \cap p.completeBlocks = {}
    /\ p.unrequestedBlocks \cup p.pendingBlocks \cup p.completeBlocks = Blocks

\* C19: while the torrent has its registry, the unrequested, pending and
\* complete blocks of every piece are pairwise disjoint and together are all
\* the blocks of the piece; selection, a downloaded block, either outcome of a
\* hash and the swap of gotInfo keep it so
C19_BlockSetsPartition ==
    /\ ~pieces.nil => \A i \in Pieces : partitioned(pcs[i])
    /\ \A i \in Pieces : partitioned(swapped(newPieces, Pieces)[i])
    /\ ~pieces.nil =>
          \A i \in Pieces :
             /\ partitioned(piecesHashFailed(Tor, i).pcs[i])
             /\ partitioned(piecesHashOk(Tor, i).pcs[i])
             /\ \A pb \in nextBlock(Tor), c \in Sessions :
                    partitioned(requestBlock(Tor, c, pb[1], pb[2]).pcs[i])
             /\ \A b \in pcs[i].pendingBlocks, c \in Sessions :
                    partitioned(setBlockComplete(Tor, i, b, c).pcs[i])

\* after a failed hash a piece is under way again, one block complete and one
\* pending, while the other piece has an unrequested block
C19_Witness ==
    /\ \E c \in Sessions : sessScore[c] > 0
    /\ \E i, j \in Pieces :
          /\ pcs[i].pendingBlocks # {} /\ pcs[i].completeBlocks # {}
          /\ pcs[j].unrequestedBlocks # {}

\* the coordinator takes a result of the hasher
TakesResult == pieceHashedC # <<>> /\ pieceHashedC' = Tail(pieceHashedC)

TakesBadResult == loop = "select" /\ TakesResult /\ ~Head(pieceHashedC)[2] /\ conns # <<>>

\* session c is sent the drop command
dropSent(c) == sendC'[c] = Append(sendC[c], "drop")

\* the drop command for session c is abandoned at its full channel and the
\* session is given up
dropAbandoned(c) ==
    Len(sendC[c]) = SendCCap /\ sendC'[c] = sendC[c] /\ c \in kicked'

\* every active session but c is left alone, and no active session has a higher
\* score than c once the failed piece is charged
onlyBanned(c) ==
    /\ blackList' = blackList \cup {sessAddr[c]}
    /\ \A d \in Range(conns) \ {c} : sendC'[d] = sendC[d] /\ d \notin kicked'
    /\ \A d \in Range(conns) : sessScore'[d] <= sessScore'[c]

C25_CandidatesDistinct ==
    /\ \A i, j \in DOMAIN peers : peers[i] = peers[j] => i = j
    /\ \A i \in DOMAIN peers : ~peerInActiveConns(Tor, peers[i])

\* Torrent.swarm: the peers of the active sessions, the half-open dials and
\* the candidates
swarm(t) ==
    {t.sessAddr[t.conns[i]] : i \in DOMAIN t.conns} \cup t.halfOpen \cup Range(t.peers)

\* a torrent with its info that was not started
notStarted == info /\ ~uploadEnabled /\ ~downloadEnabled

\* before the start a torrent with its info wants no connections and no
\* peers, and has no session and no dial
C26_NotStarted ==
    notStarted => /\ ~wantConns(Tor) /\ ~wantPeers(Tor)
                  /\ conns = <<>> /\ halfOpen = {}

\* before the start only AddPeers gives the torrent a candidate
C26_CandidatesFromAddPeers ==
    (notStarted /\ notStarted' /\ peers' # peers /\ peers' # <<>>)
        => \E u \in Callers : pc[u] = "body" /\ op[u] = "AddPeers"

\* once started, with no session and no candidate, it wants both
C26_Started ==
    (info /\ uploadEnabled /\ downloadEnabled /\ conns = <<>> /\ peers = <<>>)
        => wantConns(Tor) /\ wantPeers(Tor)

\* wantConns: room in the active set, and the info unknown or a direction
\* enabled
C26_General ==
    wantConns(Tor) <=> /\ Len(conns) < maxEstablishedConnections
                       /\ ~info \/ uploadEnabled \/ downloadEnabled

C21_LoadComplete ==
    [][ (~InfoC /\ InfoC' /\ storage' = Content)
          => /\ pieces'.owned = Pieces /\ haveAll(Tor)'
             /\ \A p \in Pieces : /\ pcs'[p].completeBlocks = Blocks
                                  /\ pcs'[p].unrequestedBlocks = {}
                                  /\ pcs'[p].pendingBlocks = {}
             /\ DownloadedDataC' /\ ~hasherStarted'
             /\ hashing' = {} /\ pieceQueuedHashingC' = <<>> ]_vars

\* gotInfo has run on a complete copy
C21_Witness ==
    /\ InfoC /\ storage = Content /\ infoBytes # NilBytes
    /\ pieces.owned = Pieces /\ DownloadedDataC /\ ~hasherStarted
    /\ panicMsg = ""

\* s is a size advertised most often
modal(s) ==
    /\ s \in InfoSizes /\ infoSizeFreq[s] > 0
    /\ \A r \in InfoSizes : infoSizeFreq[r] <= infoSizeFreq[s]

\* what downloadMetadata does with size s when sizes up to limit are taken
acceptedUpTo(s, limit) ==
    LET r == downloadMetadataOf(Tor, s) IN
    /\ s # 0 => modal(s)
    /\ r[2] <=> (0 < s /\ s <= limit)
    /\ r[2] => /\ r[1].infoBytes.len = s
               /\ Len(r[1].infoBytes.blk) = Len(r[1].ownedInfoBlocks)
               /\ Len(r[1].ownedInfoBlocks) * metadataPieceSz >= s
               /\ (Len(r[1].ownedInfoBlocks) - 1) * metadataPieceSz < s
               /\ \A i \in DOMAIN r[1].ownedInfoBlocks : ~r[1].ownedInfoBlocks[i]
    /\ ~r[2] => r[1] = Tor

\* C28: the download of the info starts with the size s advertised most often
\* and is accepted exactly when 0 < s <= 10,000,000; the buffer then has
\* length s and there are ceil(s / 16384) blocks, none of them owned
C28_AcceptedSizes ==
    infoBytes = NilBytes => \A s \in maxFreq(Tor) : acceptedUpTo(s, maxInfoSize)

\* C28 as stated: accepted exactly when 0 < s <= 10 MiB
C28_AsStated ==
    infoBytes = NilBytes => \A s \in maxFreq(Tor) : acceptedUpTo(s, TenMiB)

\* the download was accepted with the greatest size: 611 blocks, the last
\* one short
C28_Witness ==
    /\ infoBytes.len = maxInfoSize
    /\ Len(ownedInfoBlocks) = 611
    /\ infoSizeFreq[maxInfoSize] > 0
    /\ \A i \in DOMAIN ownedInfoBlocks : ~ownedInfoBlocks[i]

C30_ReadFillsBuffer ==
    /\ reader.err = "nil" => reader.b = infoSlice(Tor, reader.i)
    /\ reader.err = "read metadata piece: out of range"
          => /\ reader.i * metadataPieceSz >= infoBytes.len
             /\ reader.b = <<"own">>

\* C24: with the transfer started and every dial ending, candidates do not
\* wait for ever while the active set has room: the candidate set becomes
\* empty or the active set is full
C24_CandidatesDialed ==
    (uploadEnabled /\ peers # <<>>)
        ~> (peers = <<>> \/ Len(conns) = maxEstablishedConnections)

\* C24 as stated: the candidate set becomes empty
C24_AsStated == (uploadEnabled /\ peers # <<>>) ~> (peers = <<>>)

\* AddPeers has returned on a started torrent, every peer was popped and
\* every dial has ended with the active set not full
C24_Witness ==
    /\ uploadEnabled /\ panicMsg = ""
    /\ \E u \in Callers : op[u] = "AddPeers" /\ result[u] = "ok" /\ pc[u] = "return"
    /\ peers = <<>> /\ halfOpen = {} /\ \A a \in Addrs : dials[a] = 0
    /\ Len(conns) < maxEstablishedConnections
    /\ \E c \in Sessions : sessState[c] = "live"

\* C22: a leecher with the transfer started and a session with the seeder in
\* its active set comes to fire its downloaded-all signal
C22_LeechCompletes ==
    (downloadEnabled /\ conns # <<>>) ~> DownloadedDataC

\* the same of a content whose last piece is short
C22_ShortLastPiece ==
    (Length % PieceLen # 0 /\ downloadEnabled /\ conns # <<>>) ~> DownloadedDataC

\* the leecher of such a content has fired the signal
C22_Witness ==
    /\ DownloadedDataC /\ pieces.owned = Pieces /\ panicMsg = ""
    /\ downloadEnabled /\ Honest

\* C23: once the downloaded-all signal has fired, readBlock gives at every
\* block offset piece*PieceLen+begin the seeder's block of that offset
C23_ContentIdentical ==
    DownloadedDataC =>
        \A p \in Pieces, b \in Blocks :
            readBlock(Tor, p, b * BlockLen) = Content[p * PieceLen + b * BlockLen]

\* a leecher whose hasher verified every piece has fired the signal, after a
\* piece with other bytes had failed and was fetched again
C23_Witness ==
    /\ DownloadedDataC /\ numVerified = NumPieces /\ panicMsg = ""
    /\ storage = Content
    /\ \E c \in Sessions : sessScore[c] > 0

\* C31: once the torrent is closed the hasher comes to return, and a hasher
\* holding a result always finds room in the response channel
C31_HasherTerminates ==
    /\ (ClosedC /\ hasherStarted) ~> (hasherExited \/ panicMsg # "")
    /\ [](hashing # {} => Len(pieceHashedC) < NumPieces)

\* the torrent was closed while the hasher held a piece, and the hasher has
\* returned
C31_Witness ==
    /\ ClosedC /\ hasherExited /\ pieceHashedC # <<>> /\ numVerified < NumPieces
    /\ panicMsg = ""

\* C32: a session that arrives while the info is not known (t.pieces is nil)
\* and the active set has room is admitted, and the coordinator does not fail
C32_AdmittedWithoutInfo ==
    (AtNewConn /\ pieces.nil /\ wantConns(Tor)) =>
        /\ AfterNewConn.panicMsg = ""
        /\ NewConn \in Range(AfterNewConn.conns)

\* C35: the session a failed hash bans contributed a block to the failed piece
C35_BannedIsOffender ==
    [][TakesBadResult =>
         \A c \in Range(conns) :
            onlyBanned(c) =>
                \E b \in Blocks : pcs[Head(pieceHashedC)[1]].by[b] = c]_vars

\* C36: every piece has a length above zero and of at most the piece length, and
\* the lengths of all pieces add up to the total length
C36_PieceLens ==
    LET RECURSIVE sumLens(_)
        sumLens(i) == IF i = NumPieces THEN 0 ELSE pieceLen(i) + sumLens(i + 1)
    IN /\ \A i \in Pieces : 0 < pieceLen(i) /\ pieceLen(i) <= PieceLen
       /\ sumLens(0) = Length

\* the hasher is handed the length of the last piece of a content that is a
\* whole number of pieces
C36_Witness ==
    /\ Length % PieceLen = 0 /\ hashing = {NumPieces - 1}
    /\ pieceLen(NumPieces - 1) = 0

\* C37: with more than nine tenths of the session slots taken the number of
\* candidates is compared against more than wantPeersThreshold, otherwise
\* against wantPeersThreshold
C37_ThresholdRaised ==
    IF 10 * Len(conns) > 9 * maxEstablishedConnections
    THEN wantPeersLimit(Tor) > wantPeersThreshold
    ELSE wantPeersLimit(Tor) = wantPeersThreshold

\* every session slot is taken and the threshold is the configured one
C37_Witness ==
    /\ Len(conns) = maxEstablishedConnections /\ panicMsg = ""
    /\ wantPeersLimit(Tor) = wantPeersThreshold

\* a block and an index that the checks of writeMetadataPiece are to refuse
refused(b, i) ==
    \/ i * metadataPieceSz >= infoBytes.len
    \/ b.len > metadataPieceSz
    \/ b.len # metadataPieceSz /\ i # Len(ownedInfoBlocks) - 1

\* C38: a metadata block with an index out of range, of more than 16 KiB, or
\* not of 16 KiB and not the last, is answered with an error and leaves the
\* info buffer and the owned flags as they were, without a fault
C38_BadBlockRefused ==
    (infoBytes # NilBytes /\ panicMsg = "") =>
        \A b \in MetaBlocks, i \in 0..InfoBlocks :
            refused(b, i) =>
                \A r \in writeMetadataPiece(Tor, b, i) :
                    r[2] # "" /\ r[1] = Tor

\* the process has failed at the index of a metadata block
C38_Witness == infoBytes # NilBytes /\ panicMsg = "index out of range"

\* every block of the info is owned and the info is not known: the assembled
\* bytes were refused
infoRefused ==
    /\ infoBytes # NilBytes /\ panicMsg = "" /\ ~InfoC
    /\ downloadedMetadata(Tor)

\* C39: after the assembled info failed its check, a correct block that is
\* delivered is written to the buffer
C39_LaterBlocksWritten ==
    infoRefused =>
        \A i \in 0..(Len(ownedInfoBlocks) - 1) :
            \A b \in {m \in MetaBlocks : m.good /\ m.len = infoBlockLen(Tor, i)} :
                \A r \in writeMetadataPiece(Tor, b, i) :
                    r[1].infoBytes.blk[i + 1] = 1

\* the info has the advertised size of the dictionary, every block is owned,
\* one holds other bytes than the dictionary's, and the info is not known
C39_Witness ==
    /\ infoRefused /\ infoBytes.len = InfoSize
    /\ \E i \in DOMAIN infoBytes.blk : infoBytes.blk[i] = Junk

\* the field that is tried next does not decode the value
BenFails ==
    dec.phase = "names" /\ decode(dec.b, dec.kinds[dec.next]).err # ""

\* C40: the fields of one key are tried in their order of declaration; when a
\* field does not decode the value, no error is returned for it, the reader
\* is back at the first byte of the value, and the next field is tried
C40_ReaderRestored ==
    [][BenFails =>
         /\ dec'.b.buf = dec.b.buf /\ dec'.b.off = dec.start
         /\ dec.next < Len(dec.kinds) =>
                dec'.phase = "names" /\ dec'.next = dec.next + 1]_vars

\* Decode has returned the error of UnreadByte: the field that failed had
\* read more than one byte
C40_Witness ==
    /\ dec.phase = "done" /\ dec.next = 1 /\ dec.set = {}
    /\ dec.err = "UnreadByte: previous operation was not a successful read"

\* C40, its end: when no field of the key decoded the value, Decode returns
\* an error
C40_NoneDecodesIsError ==
    (dec.phase = "done" /\ dec.start > 0 /\ dec.set \cap DOMAIN dec.kinds = {})
        => dec.err # ""

====
